---- MODULE Spec2Model ----
(***************************************************************************)
(* The ticket pipeline of ticket-summarizer: TicketSummarizer.run drives   *)
(* fetch -> synthesize -> categorize / analyze over a list of tickets.     *)
(* Every remote call goes through an asyncio.Semaphore of its component    *)
(* and, where decorated, through utils.retry_on_failure.                   *)
(*                                                                         *)
(* One action is one run of a coroutine between two suspension points      *)
(* (await on the semaphore, on the remote call, on the inter-call sleep,   *)
(* on gather).  The backoff sleep of retry_on_failure holds no resource    *)
(* and changes no state, so the step that fails an attempt leads straight  *)
(* to the next invocation.  A remote system answers each call with any of  *)
(* the outcomes the client code distinguishes.                             *)
(***************************************************************************)
EXTENDS Integers, Sequences, FiniteSets, TLC

\* ---------------------------------------------------------------- bounds
\* Number of rows of the input CSV.
NumTickets == 2
\* Slots of the fetcher's gate.  config.py sets 10; the model scales the
\* limit down so that the fetch tasks (two per ticket) outnumber the slots.
ZENDESK_MAX_CONCURRENT == 2

\* ------------------------------------------------------ program constants
GEMINI_MAX_CONCURRENT == 1
GEMINI_REQUEST_DELAY == 7
MAX_RETRIES == 1

Positions == 1..NumTickets

\* ---------------------------------------------------------------- helpers
\* dict.get(key, default)
Get(d, k, default) == IF k \in DOMAIN d THEN d[k] ELSE default

\* d[k] = v on a dict (adds the key when absent)
Put(d, k, v) == [x \in DOMAIN d \cup {k} |-> IF x = k THEN v ELSE d[x]]

\* number of positions of s whose element equals x
Count(s, x) == Cardinality({j \in DOMAIN s : s[j] = x})

\* load_csv's rows (serial_no, ticket_id): the serial numbers are the
\* positions, the ticket IDs are distinct values of their own.
TicketIds == [i \in Positions |-> 100 + i]

\* ------------------------------------------------------------- components
WrappedOps == {"fetch_ticket", "fetch_comments", "synthesize_ticket", "categorize_ticket"}
Ops == WrappedOps \cup {"analyze_ticket"}
Gates == {"fetcher", "synthesizer", "categorizer", "diagnostics"}

\* self.semaphore of the object the operation is a method of
GateOf(op) ==
    CASE op \in {"fetch_ticket", "fetch_comments"} -> "fetcher"
      [] op = "synthesize_ticket" -> "synthesizer"
      [] op = "categorize_ticket" -> "categorizer"
      [] op = "analyze_ticket" -> "diagnostics"

\* asyncio.Semaphore(...) of each constructor
GateLimit(g) == IF g = "fetcher" THEN ZENDESK_MAX_CONCURRENT ELSE GEMINI_MAX_CONCURRENT

VARIABLES
    analysis_type,        \* TicketSummarizer.analysis_type
    ticket_ids,           \* load_csv's result: position -> ticket ID
    phase,                \* the phase run() is in
    stage,                \* stage -> whether its batch call is idle, running or has returned
    heap,                 \* the ticket dicts: object identity -> fields
    fetched_tickets,      \* lists of run(), as sequences of object identities
    synthesized_tickets,
    categorized_tickets,
    diagnostics_tickets,
    processed_tickets,
    analyzed_tickets,     \* the list analyze_multiple is building
    semaphore,            \* gate -> asyncio.Semaphore._value
    task,                 \* op -> position -> the coroutine's state
    analyze_index,        \* loop position of analyze_multiple
    calls,                \* op -> position -> remote calls issued (observer)
    invoked,              \* op -> position -> invocations of the operation (observer)
    hooks,                \* stage -> position -> progress callback invocations
    stats,                \* TicketSummarizer.stats: counter -> value
    scenarioA,            \* every remote answer so far is the one of scenario A (observer)
    output,               \* the dict generate_output returned, as save_output left it
    files,                \* the JSON files save_output wrote: name -> the metadata in the file
    invocation,           \* a parser or derivation under study: [fn, arg]
    returned              \* what it returned, Pending before it ran

pipeline == <<analysis_type, ticket_ids, phase, stage, heap, fetched_tickets, synthesized_tickets,
              categorized_tickets, diagnostics_tickets, processed_tickets, analyzed_tickets,
              semaphore, task, analyze_index, calls, invoked, hooks, stats, scenarioA,
              output, files>>
parser == <<invocation, returned>>
vars == <<pipeline, parser>>

inputs == <<analysis_type, ticket_ids>>
lists == <<fetched_tickets, synthesized_tickets, categorized_tickets, diagnostics_tickets,
           processed_tickets, analyzed_tickets>>
progress == <<hooks, stats>>
written == <<output, files>>

Stages == {"fetch", "synthesis", "categorization", "diagnostics"}

\* A coroutine that is not scheduled.
NoTask == [pc |-> "none", attempt |-> 0, result |-> "none"]
\* A coroutine at its first invocation, about to enter `async with self.semaphore`.
NewTask == [pc |-> "acquire", attempt |-> 0, result |-> "none"]

Finished(t) == t.pc \in {"returned", "raised"}

Zero == [op \in Ops |-> [i \in Positions |-> 0]]

\* The per-stage counters of self.stats and the one a stage's callback adds to.
Counters == {"fetch_success", "fetch_failed", "synthesis_success", "synthesis_failed",
             "categorization_success", "categorization_failed",
             "diagnostics_analysis_success", "diagnostics_analysis_failed"}
CounterOf(s, success) ==
    CASE s = "fetch" -> IF success THEN "fetch_success" ELSE "fetch_failed"
      [] s = "synthesis" -> IF success THEN "synthesis_success" ELSE "synthesis_failed"
      [] s = "categorization" -> IF success THEN "categorization_success"
                                 ELSE "categorization_failed"
      [] s = "diagnostics" -> IF success THEN "diagnostics_analysis_success"
                              ELSE "diagnostics_analysis_failed"

\* No output generated yet, no file written.
NoOutput == [metadata |-> <<>>, tickets |-> <<>>, errors |-> <<>>]
NoFiles == <<>>

\* The summarizer as constructed, before run().
Constructed ==
    /\ analysis_type \in {"pod", "diagnostics", "both"}
    /\ ticket_ids = TicketIds
    /\ phase = "fetch"
    /\ stage = [s \in Stages |-> "idle"]
    /\ heap = <<>>
    /\ fetched_tickets = <<>>
    /\ synthesized_tickets = <<>>
    /\ categorized_tickets = <<>>
    /\ diagnostics_tickets = <<>>
    /\ processed_tickets = <<>>
    /\ analyzed_tickets = <<>>
    /\ semaphore = [g \in Gates |-> GateLimit(g)]
    /\ task = [op \in Ops |-> [i \in Positions |-> NoTask]]
    /\ analyze_index = 0
    /\ calls = Zero
    /\ invoked = Zero
    /\ hooks = [s \in Stages |-> [i \in Positions |-> 0]]
    /\ stats = [c \in Counters |-> 0]
    /\ scenarioA = TRUE
    /\ output = NoOutput
    /\ files = NoFiles

NoInvocation == [fn |-> "none", arg |-> "none"]
Pending == [done |-> FALSE]
Done(v) == [done |-> TRUE, value |-> v]

Init ==
    /\ Constructed
    /\ invocation = NoInvocation
    /\ returned = Pending

\* ===================================================================
\* Parsers and derivations, applied to the answers an LLM can give
\* ===================================================================
\* str.lower() and str.strip() on the strings the model draws from: a string
\* the tables do not list has no upper-case letter, or no white space at
\* its ends.
LowerTable ==
    ("Yes" :> "yes") @@ ("YES" :> "yes") @@ ("No" :> "no") @@ ("Maybe" :> "maybe")
    @@ ("Guidance" :> "guidance") @@ ("WFE" :> "wfe") @@ ("Hub" :> "hub")
    @@ ("CMM" :> "cmm") @@ ("Analytics" :> "analytics") @@ ("Insights" :> "insights")
    @@ ("Capture" :> "capture") @@ ("Mirror" :> "mirror") @@ ("Desktop" :> "desktop")
    @@ ("Mobile" :> "mobile") @@ ("Labs" :> "labs")
    @@ ("Platform Services" :> "platform services") @@ ("UI Platform" :> "ui platform")
    @@ ("GUIDANCE" :> "guidance") @@ ("Unknown" :> "unknown")
    @@ ("Guidance, NotARealPod" :> "guidance, notarealpod")
    @@ ("NotARealPod, Hub , WFE" :> "notarealpod, hub , wfe")
    @@ ("**Primary POD:**" :> "**primary pod:**") @@ ("**Reasoning:**" :> "**reasoning:**")
    @@ ("**Confidence:**" :> "**confidence:**")
    @@ ("**Confidence Reason:**" :> "**confidence reason:**")
    @@ ("**Alternative PODs:**" :> "**alternative pods:**")
    @@ ("**Alternative Reasoning:**" :> "**alternative reasoning:**")
    @@ ("NotARealPod" :> "notarealpod") @@ ("None" :> "none") @@ ("NONE" :> "none")
    @@ ("Confident" :> "confident") @@ ("Not Confident" :> "not confident")
    @@ ("N/A" :> "n/a")
lower(s) == IF s \in DOMAIN LowerTable THEN LowerTable[s] ELSE s

StripTable ==
    (" maybe " :> "maybe") @@ (" Yes" :> "Yes") @@ (" NotARealPod" :> "NotARealPod")
    @@ (" Hub " :> "Hub") @@ (" " :> "") @@ (" WFE" :> "WFE")
strip(s) == IF s \in DOMAIN StripTable THEN StripTable[s] ELSE s

\* str.upper() on the strings it is applied to
UpperTable == ("n/a" :> "N/A") @@ ("because" :> "BECAUSE") @@ ("N/A" :> "N/A")
upper(s) == UpperTable[s]

\* str.split(',') on the strings of the model: a string the table does not
\* list has no comma.
SplitTable ==
    ("Guidance, NotARealPod" :> <<"Guidance", " NotARealPod">>)
    @@ ("NotARealPod, Hub , WFE" :> <<"NotARealPod", " Hub ", " WFE">>)
split(s) == IF s \in DOMAIN SplitTable THEN SplitTable[s] ELSE <<s>>

\* _derive_overall_assessment with the first test too wide: (yes, maybe)
\* counts as a full yes.
derive_overall_assessment_fix_maybe(triage, fix) ==
    LET t == lower(strip(triage))
        f == lower(strip(fix))
    IN IF t = "yes" /\ f \in {"yes", "maybe"} THEN "yes"
       ELSE IF t = "yes" /\ f \in {"no", "maybe"} THEN "maybe"
       ELSE IF t = "maybe" THEN "maybe"
       ELSE "no"

\* DiagnosticsAnalyzer._derive_overall_assessment
derive_overall_assessment(triage, fix) ==
    LET t == lower(strip(triage))
        f == lower(strip(fix))
    IN IF t = "yes" /\ f = "yes" THEN "yes"
       ELSE IF t = "yes" /\ f \in {"no", "maybe"} THEN "maybe"
       ELSE IF t = "maybe" THEN "maybe"
       ELSE "no"

\* The assessment strings an LLM's JSON is given in the model.
AssessmentTexts == {"yes", "no", "maybe", "Yes", " maybe ", "unknown", ""}

DeriveInvocations ==
    {[fn |-> "_derive_overall_assessment", arg |-> [triage |-> t, fix |-> f]] :
        t \in AssessmentTexts, f \in AssessmentTexts}

\* _derive_overall_assessment is called on the invocation's arguments.
call_derive_overall_assessment ==
    /\ invocation.fn = "_derive_overall_assessment"
    /\ returned = Pending
    /\ returned' = Done(derive_overall_assessment(invocation.arg.triage, invocation.arg.fix))
    /\ UNCHANGED <<pipeline, invocation>>

\* ------------------------------------------- the diagnostics JSON answer
\* Python's truth value of a string or None
Truthy(x) == x \notin {"None", ""}

\* config.TRIAGE_GAP_AREAS, config.FIX_GAP_AREAS, utils.validate_triage_gap_area
\* and utils.validate_fix_gap_area are used by the analyzer and defined
\* nowhere: in the build "source" each use raises AttributeError.  The
\* build "completed" has them: closed vocabularies that hold the "other"
\* tag, and membership tests.
Builds == {"source", "completed"}
TRIAGE_GAP_AREAS == {"triage_gap_in_taxonomy", "other_triage_gap"}
FIX_GAP_AREAS == {"fix_gap_in_taxonomy", "other_fix_gap"}
validate_triage_gap_area(gap) == gap \in TRIAGE_GAP_AREAS
validate_fix_gap_area(gap) == gap \in FIX_GAP_AREAS

\* utils.validate_confidence, validate_diagnostics_usage, validate_diagnostics_assessment
CONFIDENCE_LEVELS == {"confident", "not confident"}
validate_confidence(c) ==
    Truthy(c) /\ lower(strip(c)) \in {lower(l) : l \in CONFIDENCE_LEVELS}
validate_diagnostics_usage_any(u) == Truthy(u)
validate_diagnostics_usage(u) == Truthy(u) /\ lower(strip(u)) \in {"yes", "no", "unknown"}
validate_diagnostics_assessment(a) == Truthy(a) /\ lower(strip(a)) \in {"yes", "no", "maybe"}

\* A gap description is a text made of parts: <<>> is the empty string, and
\* a description that is absent or None reads as <<>> wherever the code
\* reads one (`.get(...) or ""`, `not ....get(...)`).
\* The f-string of _normalize_gap_areas, as the sequence of its parts.
AutoRemapped(original, existing) ==
    <<"[Auto-remapped from '", original, "'] ">>
    \o (IF existing # <<>> THEN existing
        ELSE <<"LLM suggested this gap area which is not in the predefined taxonomy.">>)

\* One of the two blocks of _normalize_gap_areas, on could_help.
NormalizeGap(could_help, area, description, taxonomy, other) ==
    LET gap == Get(could_help, area, "None")
        existing == Get(could_help, description, <<>>)
    IN IF gap # "None" /\ gap \notin taxonomy
       THEN Put(Put(could_help, area, other), description, AutoRemapped(gap, existing))
       ELSE could_help

\* Whether _normalize_gap_areas reads a taxonomy: it does for a gap area
\* that is not None.
ReadsTaxonomy(data) ==
    LET could_help == Get(data, "could_diagnostics_help", <<>>)
    IN \/ Get(could_help, "triage_gap_area", "None") # "None"
       \/ Get(could_help, "fix_gap_area", "None") # "None"

\* _normalize_gap_areas raises: the build lacks the taxonomy it reads.
NormalizeRaises(data, build) == build = "source" /\ ReadsTaxonomy(data)

\* DiagnosticsAnalyzer._normalize_gap_areas, when it does not raise: the
\* data with its gap areas remapped.
normalize_gap_areas(data) ==
    LET could_help == Get(data, "could_diagnostics_help", <<>>)
        t == NormalizeGap(could_help, "triage_gap_area", "triage_gap_description",
                          TRIAGE_GAP_AREAS, "other_triage_gap")
        f == NormalizeGap(t, "fix_gap_area", "fix_gap_description",
                          FIX_GAP_AREAS, "other_fix_gap")
    IN Put(data, "could_diagnostics_help", f)

\* The gap-area checks of _validate_analysis_structure for one assessment
\* that is "no" or "maybe": the area is there, in the taxonomy, and the
\* "other" tag comes with a description.  The build "source" has no
\* validate_*_gap_area to call: the AttributeError makes the validation False.
GapValid(could_help, area, description, in_taxonomy, other, build) ==
    LET gap == Get(could_help, area, "None")
    IN /\ Truthy(gap)
       /\ build # "source"
       /\ in_taxonomy
       /\ gap = other => Get(could_help, description, <<>>) # <<>>

\* DiagnosticsAnalyzer._validate_analysis_structure
validate_analysis_structure(data, build) ==
    /\ {"was_diagnostics_used", "could_diagnostics_help", "metadata"} \subseteq DOMAIN data
    /\ LET was_used == data["was_diagnostics_used"]
           could_help == data["could_diagnostics_help"]
           triage_assessment == lower(strip(Get(could_help, "triage_assessment", "")))
           fix_assessment == lower(strip(Get(could_help, "fix_assessment", "")))
       IN /\ validate_diagnostics_usage(lower(strip(Get(was_used, "llm_assessment", ""))))
          /\ validate_confidence(Get(was_used, "confidence", ""))
          /\ Truthy(Get(was_used, "reasoning", "None"))
          /\ validate_diagnostics_assessment(triage_assessment)
          /\ Truthy(Get(could_help, "triage_reasoning", "None"))
          /\ validate_diagnostics_assessment(fix_assessment)
          /\ Truthy(Get(could_help, "fix_reasoning", "None"))
          /\ triage_assessment \in {"no", "maybe"} =>
                GapValid(could_help, "triage_gap_area", "triage_gap_description",
                         validate_triage_gap_area(Get(could_help, "triage_gap_area", "None")),
                         "other_triage_gap", build)
          /\ fix_assessment \in {"no", "maybe"} =>
                GapValid(could_help, "fix_gap_area", "fix_gap_description",
                         validate_fix_gap_area(Get(could_help, "fix_gap_area", "None")),
                         "other_fix_gap", build)
          /\ validate_confidence(Get(could_help, "confidence", ""))
          /\ Get(data["metadata"], "ticket_type", "")
                \in {"troubleshooting", "feature_request", "technical_request", "unclear"}

\* None, or a value that is not None.
None == [none |-> TRUE]
Some(d) == [none |-> FALSE, some |-> d]

\* DiagnosticsAnalyzer._parse_diagnostics_response on a response text that
\* holds no JSON object, a malformed one, or the object text.data.
parse_diagnostics_response(text, build) ==
    IF text.json # "object" THEN None
    ELSE IF NormalizeRaises(text.data, build) THEN None
    ELSE IF validate_analysis_structure(normalize_gap_areas(text.data), build)
         THEN Some(normalize_gap_areas(text.data))
         ELSE None

\* The `if analysis_result:` block keeping an overall_assessment that the
\* LLM's JSON already holds.
WithOverallAssessment_llm_first(analysis_result) ==
    LET could_help == analysis_result["could_diagnostics_help"]
        overall == derive_overall_assessment(Get(could_help, "triage_assessment", "maybe"),
                                             Get(could_help, "fix_assessment", "no"))
    IN Put(analysis_result, "could_diagnostics_help",
           Put(could_help, "overall_assessment",
               Get(could_help, "overall_assessment", overall)))

\* analyze_ticket's `if analysis_result:` block: the overall assessment is
\* derived from the two assessments of the result and stored in it.
\* (custom_field_value, the timestamp and overall_reasoning are left out.)
WithOverallAssessment(analysis_result) ==
    LET could_help == analysis_result["could_diagnostics_help"]
        overall == derive_overall_assessment(Get(could_help, "triage_assessment", "maybe"),
                                             Get(could_help, "fix_assessment", "no"))
    IN Put(analysis_result, "could_diagnostics_help",
           Put(could_help, "overall_assessment", overall))

\* analyze_ticket from the response text to the value it returns.
analysis_of(text, build) ==
    LET r == parse_diagnostics_response(text, build)
    IN IF r.none THEN None ELSE Some(WithOverallAssessment(r.some))

\* A dict with at most the key k, its value drawn from V.
Opt(k, V) == {<<>>} \cup {k :> v : v \in V}

\* The could_diagnostics_help objects an LLM's JSON is given in the model:
\* assessments in and out of the vocabulary, gap areas absent, in the
\* taxonomy, outside it, or the "other" tag, with and without a
\* description, and an overall_assessment of the LLM's own.
CouldHelpObjects ==
    {ta @@ fa @@ tr @@ tg @@ td @@ fg @@ oa
        @@ [fix_reasoning |-> "because", confidence |-> "confident"] :
        ta \in Opt("triage_assessment", {"yes", "no", "maybe", "Yes", " maybe ", "unknown"}),
        fa \in Opt("fix_assessment", {"yes", "no", "maybe"}),
        tr \in Opt("triage_reasoning", {"because"}),
        tg \in Opt("triage_gap_area", {"triage_gap_in_taxonomy", "made_up_gap", "other_triage_gap"}),
        td \in Opt("triage_gap_description", {<<>>, <<"details">>}),
        fg \in Opt("fix_gap_area", {"fix_gap_in_taxonomy", "made_up_gap"}),
        oa \in Opt("overall_assessment", {"yes", "no"})}

\* The JSON object of a well-formed answer: every required field, no gap
\* area (both assessments are "yes").
AnalysisObject ==
    [was_diagnostics_used |->
        [llm_assessment |-> "unknown", confidence |-> "Confident", reasoning |-> "because"],
     could_diagnostics_help |->
        [triage_assessment |-> "yes", triage_reasoning |-> "because",
         fix_assessment |-> "yes", fix_reasoning |-> "because", confidence |-> "confident"],
     metadata |-> [ticket_type |-> "troubleshooting"]]

\* The well-formed object with one required field out of its vocabulary,
\* empty, or absent.
BrokenAnalyses ==
    {[AnalysisObject EXCEPT !.was_diagnostics_used.confidence = "sure"],
     [AnalysisObject EXCEPT !.was_diagnostics_used.reasoning = ""],
     [AnalysisObject EXCEPT !.could_diagnostics_help.fix_assessment = "perhaps"],
     [AnalysisObject EXCEPT !.could_diagnostics_help.fix_reasoning = ""],
     [AnalysisObject EXCEPT !.could_diagnostics_help.confidence = ""],
     [AnalysisObject EXCEPT !.metadata.ticket_type = "bug"],
     [AnalysisObject EXCEPT !.metadata = <<>>],
     [AnalysisObject EXCEPT !.was_diagnostics_used = [confidence |-> "confident"]]}

\* The response texts of the diagnostics LLM: no JSON object in it, a
\* malformed one, or an object.
DiagnosticsTexts ==
    {[json |-> j] : j \in {"none", "malformed"}}
    \cup {[json |-> "object", data |-> d] : d \in {AnalysisObject} \cup BrokenAnalyses}
    \cup {[json |-> "object",
           data |-> u @@ [could_diagnostics_help |-> c] @@ m] :
            u \in Opt("was_diagnostics_used",
                      {[llm_assessment |-> a, confidence |-> "Confident", reasoning |-> "because"] :
                          a \in {"unknown", "perhaps"}}),
            c \in CouldHelpObjects,
            m \in Opt("metadata", {[ticket_type |-> "troubleshooting"]})}

AnalyzeInvocations ==
    {[fn |-> "analyze_ticket", arg |-> [text |-> t, build |-> b]] :
        t \in DiagnosticsTexts, b \in Builds}

\* analyze_ticket parses the invocation's response text.
call_analyze_ticket ==
    /\ invocation.fn = "analyze_ticket"
    /\ returned = Pending
    /\ returned' = Done(analysis_of(invocation.arg.text, invocation.arg.build))
    /\ UNCHANGED <<pipeline, invocation>>

\* ------------------------------------------------ labeled-section texts
\* A response text is the sequence of its lines (the text is the lines
\* joined by "\n"; <<>> is the empty string).  The lines of the model have
\* no white space at their ends, so that stripping a text drops the blank
\* lines at its ends.
CategorizationLabels ==
    <<"**Primary POD:**", "**Reasoning:**", "**Confidence:**", "**Confidence Reason:**",
      "**Alternative PODs:**", "**Alternative Reasoning:**">>
SynthesisLabels ==
    <<"**Issue Reported:**", "**Root Cause:**", "**Summary:**", "**Resolution:**">>

\* The lines of the model that start with "**"
BoldLines ==
    {CategorizationLabels[i] : i \in DOMAIN CategorizationLabels}
    \cup {SynthesisLabels[i] : i \in DOMAIN SynthesisLabels}

Min(S) == CHOOSE x \in S : \A y \in S : x <= y
Max(S) == CHOOSE x \in S : \A y \in S : x >= y

\* str.strip() on a text
StripLines(lines) ==
    LET filled == {i \in DOMAIN lines : lines[i] # ""}
    IN IF filled = {} THEN <<>> ELSE SubSeq(lines, Min(filled), Max(filled))

NoMatch == [found |-> FALSE]
Match(group) == [found |-> TRUE, group |-> group]

\* re.search(r'<label>\s*\n(.*?)(?=\n\*\*|\Z)', text, re.DOTALL), and with
\* to_end the pattern that ends in (?=\Z); the group is stripped as every
\* caller does.  The first label line that a newline follows matches;
\* \s*\n takes the blank lines after it; the group starts at the next line
\* whatever that line is, and runs, lazily, to the line before the next
\* line that starts with "**", or to the end of the text.
search(lines, label, to_end) ==
    LET found == {i \in 1..(Len(lines) - 1) : lines[i] = label}
    IN IF found = {} THEN NoMatch
       ELSE LET filled == {j \in (Min(found) + 1)..Len(lines) : lines[j] # ""}
            IN IF filled = {} THEN Match(<<>>)
               ELSE LET j == Min(filled)
                        k == IF to_end THEN Len(lines)
                             ELSE Min({n \in j..Len(lines) :
                                          n = Len(lines) \/ lines[n + 1] \in BoldLines})
                    IN Match(StripLines(SubSeq(lines, j, k)))

\* config.VALID_PODS
VALID_PODS ==
    {"WFE", "Guidance", "CMM", "Hub", "Analytics", "Insights", "Capture", "Mirror",
     "Desktop", "Mobile", "Labs", "Platform Services", "UI Platform"}

\* utils.validate_pod on a string without a line break
validate_pod(pod_name) ==
    /\ Truthy(pod_name)
    /\ \/ strip(pod_name) \in VALID_PODS
       \/ lower(strip(pod_name)) \in {lower(v) : v \in VALID_PODS}

\* A validator on a stripped text: the empty text is falsy, and a text of
\* several lines is in no vocabulary.
ValidPodText(text) == Len(text) = 1 /\ validate_pod(text[1])
ValidConfidenceText(text) == Len(text) = 1 /\ validate_confidence(text[1])

\* A piece of a split text that spans a line break
LineBreakPiece == "a piece with a line break in it"

\* alt_pods_text.split(','): the pieces of each line, the last piece of a
\* line and the first of the next being one piece.
RECURSIVE SplitText(_)
SplitText(text) ==
    IF Len(text) = 0 THEN <<"">>
    ELSE IF Len(text) = 1 THEN split(text[1])
    ELSE SubSeq(split(text[1]), 1, Len(split(text[1])) - 1)
         \o <<LineBreakPiece>> \o Tail(SplitText(Tail(text)))

\* [p.strip() for p in ...] and [p for p in alt_pods if utils.validate_pod(p)]
RECURSIVE ValidatedPods(_)
ValidatedPods(pieces) ==
    IF pieces = <<>> THEN <<>>
    ELSE (IF Head(pieces) # LineBreakPiece /\ validate_pod(strip(Head(pieces)))
          THEN <<strip(Head(pieces))>> ELSE <<>>)
         \o ValidatedPods(Tail(pieces))

\* The Alternative PODs block dropping the whole list when one entry is
\* not a POD.
alternative_pods_all_or_nothing(alt_pods_text) ==
    IF ValidatedPods(SplitText(alt_pods_text)) = [i \in DOMAIN SplitText(alt_pods_text) |->
                                                    strip(SplitText(alt_pods_text)[i])]
    THEN ValidatedPods(SplitText(alt_pods_text)) ELSE <<>>

\* The Alternative PODs block of parse_categorization_response on the
\* stripped text of the section
alternative_pods(alt_pods_text) ==
    IF Len(alt_pods_text) = 1 /\ lower(alt_pods_text[1]) = "none" THEN <<>>
    ELSE ValidatedPods(SplitText(alt_pods_text))

\* The Confidence block storing whatever the section holds.
confidence_unvalidated(m) == IF m.found THEN m.group ELSE <<"not confident">>

\* The Confidence block of parse_categorization_response on its match
confidence(m) ==
    IF m.found /\ ValidConfidenceText(m.group) THEN m.group ELSE <<"not confident">>

\* TicketCategorizer.parse_categorization_response (metadata left out)
parse_categorization_response(response_text) ==
    LET pod_match == search(response_text, "**Primary POD:**", FALSE)
        reasoning_match == search(response_text, "**Reasoning:**", FALSE)
        confidence_match == search(response_text, "**Confidence:**", FALSE)
        confidence_reason_match == search(response_text, "**Confidence Reason:**", FALSE)
        alt_pods_match == search(response_text, "**Alternative PODs:**", FALSE)
        alt_reasoning_match == search(response_text, "**Alternative Reasoning:**", TRUE)
    IN [primary_pod |-> IF pod_match.found /\ ValidPodText(pod_match.group)
                        THEN pod_match.group ELSE <<>>,
        reasoning |-> IF reasoning_match.found THEN reasoning_match.group ELSE <<>>,
        confidence |-> confidence(confidence_match),
        confidence_reason |-> IF confidence_reason_match.found
                              THEN confidence_reason_match.group ELSE <<>>,
        alternative_pods |-> IF alt_pods_match.found
                             THEN alternative_pods(alt_pods_match.group) ELSE <<>>,
        alternative_reasoning |->
            IF alt_reasoning_match.found
               /\ ~(Len(alt_reasoning_match.group) = 1
                    /\ upper(alt_reasoning_match.group[1]) = "N/A")
            THEN Some(alt_reasoning_match.group) ELSE None]

\* GeminiSynthesizer.parse_response on the lines of a text
parse_response_lines(response_text) ==
    LET issue_match == search(response_text, "**Issue Reported:**", FALSE)
        root_cause_match == search(response_text, "**Root Cause:**", FALSE)
        summary_match == search(response_text, "**Summary:**", FALSE)
        resolution_match == search(response_text, "**Resolution:**", TRUE)
    IN [issue_reported |-> IF issue_match.found THEN issue_match.group ELSE <<>>,
        root_cause |-> IF root_cause_match.found THEN root_cause_match.group ELSE <<>>,
        summary |-> IF summary_match.found THEN summary_match.group ELSE <<>>,
        resolution |-> IF resolution_match.found THEN resolution_match.group ELSE <<>>]

\* A section of a response: absent, or its label and the lines under it.
Absent == [present |-> FALSE]
Section(body) == [present |-> TRUE, body |-> body]
Sections(bodies) == {Absent} \cup {Section(b) : b \in bodies}

\* The lines of a response made of sections in the order of the prompt,
\* with or without a blank line after each section.
RECURSIVE TextOf(_, _, _)
TextOf(labels, sections, blank_lines) ==
    IF labels = <<>> THEN <<>>
    ELSE (IF Head(sections).present
          THEN <<Head(labels)>> \o Head(sections).body
               \o (IF blank_lines THEN <<"">> ELSE <<>>)
          ELSE <<>>)
         \o TextOf(Tail(labels), Tail(sections), blank_lines)

\* The responses of the categorization LLM in the model: every section
\* absent, empty, or filled with a value in or out of its vocabulary.
CategorizationResponses ==
    {<<pod, reasoning, conf, reason, alt, alt_reasoning>> :
        pod \in Sections({<<>>, <<"Guidance">>, <<"guidance">>, <<"NotARealPod">>}),
        reasoning \in Sections({<<>>, <<"because">>, <<"because", "because">>}),
        conf \in Sections({<<>>, <<"confident">>, <<"Confident">>, <<"very confident">>}),
        reason \in Sections({<<>>, <<"because">>}),
        alt \in Sections({<<>>, <<"None">>, <<"none">>, <<"Guidance, NotARealPod">>,
                          <<"NotARealPod, Hub , WFE">>}),
        alt_reasoning \in Sections({<<>>, <<"N/A">>, <<"n/a">>, <<"because">>})}

\* The responses of the synthesis LLM in the model.
SynthesisResponses ==
    {<<issue, root_cause, summary, resolution>> :
        issue \in Sections({<<>>, <<"because">>}),
        root_cause \in Sections({<<>>, <<"because">>}),
        summary \in Sections({<<>>, <<"because">>, <<"because", "because">>}),
        resolution \in Sections({<<>>, <<"because">>})}

CategorizationInvocations ==
    {[fn |-> "parse_categorization_response", arg |-> [sections |-> r, blank_lines |-> b]] :
        r \in CategorizationResponses, b \in BOOLEAN}

SynthesisInvocations ==
    {[fn |-> "parse_response", arg |-> [sections |-> r, blank_lines |-> b]] :
        r \in SynthesisResponses, b \in BOOLEAN}

\* The response text of the invocation of a text parser
CategorizationText(arg) == TextOf(CategorizationLabels, arg.sections, arg.blank_lines)
SynthesisText(arg) == TextOf(SynthesisLabels, arg.sections, arg.blank_lines)

\* parse_categorization_response is called on the invocation's text.
call_parse_categorization_response ==
    /\ invocation.fn = "parse_categorization_response"
    /\ returned = Pending
    /\ returned' = Done(parse_categorization_response(CategorizationText(invocation.arg)))
    /\ UNCHANGED <<pipeline, invocation>>

\* parse_response is called on the invocation's text.
call_parse_response ==
    /\ invocation.fn = "parse_response"
    /\ returned = Pending
    /\ returned' = Done(parse_response_lines(SynthesisText(invocation.arg)))
    /\ UNCHANGED <<pipeline, invocation>>

\* ===================================================================
\* The pipeline
\* ===================================================================
\* retry_on_failure with the loop bound off by one: `attempt <= max_retries`.
retry_on_failure_once_more(op, t, e) ==
    IF op \in WrappedOps /\ t.attempt <= MAX_RETRIES
    THEN [pc |-> "acquire", attempt |-> t.attempt + 1, result |-> "none"]
    ELSE [pc |-> "raised", attempt |-> t.attempt, result |-> e]

\* ------------------------------------------------------- retry_on_failure
\* async_wrapper's except branch for an attempt that raised e: another
\* invocation while attempt < max_retries, else `raise last_exception`.
\* analyze_ticket carries no decorator: its exception leaves at once.
retry_on_failure(op, t, e) ==
    IF op \in WrappedOps /\ t.attempt < MAX_RETRIES
    THEN [pc |-> "acquire", attempt |-> t.attempt + 1, result |-> "none"]
    ELSE [pc |-> "raised", attempt |-> t.attempt, result |-> e]

\* The invocation count after the wrapper handled an attempt.
Reinvoked(op, t, e) == IF retry_on_failure(op, t, e).pc = "acquire" THEN 1 ELSE 0

\* A gate that lets every caller in, and a gate that is never given back.
CanAcquire_unbounded(g) == TRUE
Release_never(g) == semaphore

\* `async with self.semaphore`: entering takes a slot, leaving returns it.
CanAcquire(g) == semaphore[g] > 0
Acquire(g) == [semaphore EXCEPT ![g] = @ - 1]
Release(g) == [semaphore EXCEPT ![g] = @ + 1]


\* progress_callback(ticket_id, result, ...) of the phase that runs the
\* stage: one of the stage's two counters goes up, the progress bar advances.
progress_callback(s, j, success) ==
    /\ hooks' = [hooks EXCEPT ![s][j] = @ + 1]
    /\ stats' = [stats EXCEPT ![CounterOf(s, success)] = @ + 1]

\* The coroutines of a batch are gone once its gather returned; the next
\* phase starts with none of them (and the call observers at zero).
Forget(f, ops, v) == [op \in Ops |-> IF op \in ops THEN [i \in Positions |-> v] ELSE f[op]]

\* t.get('processing_status') == 'success'
FetchSucceeded(d) == Get(d, "processing_status", "None") = "success"

\* dict.copy() into a fresh object, then more fields set on the copy
Alloc(h, o, d) == h @@ (o :> d)

\* Scenario A of the end-to-end tests: the metadata request of the ticket
\* of row 2 is answered 404, every other remote call succeeds with a
\* well-formed answer.
Answer(op, i) ==
    CASE op = "fetch_ticket" -> IF i = 2 THEN "404" ELSE "200"
      [] op = "fetch_comments" -> "200"
      [] op = "synthesize_ticket" -> "full"
      [] op = "categorize_ticket" -> "text"
      [] op = "analyze_ticket" -> "json"

\* ------------------------------------------------------------ fetch stage
\* fetch_phase / fetch_multiple_tickets: one _fetch_with_progress task per
\* row, each gathering fetch_ticket and fetch_comments.
fetch_multiple_tickets ==
    /\ phase = "fetch"
    /\ stage["fetch"] = "idle"
    /\ stage' = [stage EXCEPT !["fetch"] = "running"]
    /\ task' = [task EXCEPT !["fetch_ticket"] = [i \in Positions |-> NewTask],
                            !["fetch_comments"] = [i \in Positions |-> NewTask]]
    /\ invoked' = [invoked EXCEPT !["fetch_ticket"] = [i \in Positions |-> 1],
                                  !["fetch_comments"] = [i \in Positions |-> 1]]
    /\ UNCHANGED <<parser, written, scenarioA, inputs, phase, heap, lists, semaphore, analyze_index, calls, progress>>

\* fetch_ticket / fetch_comments enter the gate and issue session.get.
fetch_acquire(op, i) ==
    /\ stage["fetch"] = "running"
    /\ task[op][i].pc = "acquire"
    /\ CanAcquire("fetcher")
    /\ semaphore' = Acquire("fetcher")
    /\ task' = [task EXCEPT ![op][i].pc = "call"]
    /\ calls' = [calls EXCEPT ![op][i] = @ + 1]
    /\ UNCHANGED <<parser, written, scenarioA, inputs, phase, stage, heap, lists, analyze_index, invoked, progress>>

\* What fetch_ticket does with the response: 200 returns the ticket, 404
\* raises TicketNotFoundError, anything else (status, ClientError, timeout)
\* raises ZendeskAPIError.
FetchTicketStatuses == {"200", "404", "error"}
FetchTicketError(status) == IF status = "404" THEN "TicketNotFoundError" ELSE "ZendeskAPIError"

\* The wrapped operation op at position i ends an attempt: it leaves the
\* gate, and either returns r or raises e into retry_on_failure.
Returns(op, i, r) ==
    /\ task' = [task EXCEPT ![op][i] = [pc |-> "returned", attempt |-> @.attempt, result |-> r]]
    /\ UNCHANGED invoked

Raises(op, i, e) ==
    /\ task' = [task EXCEPT ![op][i] = retry_on_failure(op, @, e)]
    /\ invoked' = [invoked EXCEPT ![op][i] = @ + Reinvoked(op, task[op][i], e)]

\* fetch_ticket keeping its slot when the request fails.
fetch_ticket_slot_kept_on_error(i, status) ==
    /\ stage["fetch"] = "running"
    /\ task["fetch_ticket"][i].pc = "call"
    /\ IF status = "200"
       THEN /\ semaphore' = Release("fetcher")
            /\ Returns("fetch_ticket", i, "ticket")
       ELSE /\ UNCHANGED semaphore
            /\ Raises("fetch_ticket", i, FetchTicketError(status))
    /\ scenarioA' = (scenarioA /\ status = Answer("fetch_ticket", i))
    /\ UNCHANGED <<parser, written, inputs, phase, stage, heap, lists, analyze_index, calls, progress>>

fetch_ticket(i, status) ==
    /\ stage["fetch"] = "running"
    /\ task["fetch_ticket"][i].pc = "call"
    /\ semaphore' = Release("fetcher")
    /\ IF status = "200"
       THEN Returns("fetch_ticket", i, "ticket")
       ELSE Raises("fetch_ticket", i, FetchTicketError(status))
    /\ scenarioA' = (scenarioA /\ status = Answer("fetch_ticket", i))
    /\ UNCHANGED <<parser, written, inputs, phase, stage, heap, lists, analyze_index, calls, progress>>

\* fetch_comments: every page answered 200 returns the comments; any other
\* answer raises ZendeskAPIError.
FetchCommentsStatuses == {"200", "error"}

fetch_comments(i, status) ==
    /\ stage["fetch"] = "running"
    /\ task["fetch_comments"][i].pc = "call"
    /\ semaphore' = Release("fetcher")
    /\ IF status = "200"
       THEN Returns("fetch_comments", i, "comments")
       ELSE Raises("fetch_comments", i, "ZendeskAPIError")
    /\ scenarioA' = (scenarioA /\ status = Answer("fetch_comments", i))
    /\ UNCHANGED <<parser, written, inputs, phase, stage, heap, lists, analyze_index, calls, progress>>

\* str(e) of the exceptions the stages store
ErrorText(e) ==
    CASE e = "TicketNotFoundError" -> "Ticket not found"
      [] e = "ZendeskAPIError" -> "Zendesk API error"
      [] e = "AttributeError" -> "module 'utils' has no attribute 'determine_escalation_status'"
      [] OTHER -> e

\* _parse_custom_fields ends with utils.determine_escalation_status(...),
\* a name utils.py does not define: the call raises AttributeError.  Every
\* later stage works on tickets whose fetch succeeded, so the model keeps,
\* next to that outcome, the one of a build that has the helper: it returns
\* the escalation mapping the later stages read.
EscalationOutcomes == {"escalation", "AttributeError"}

\* The dict fetch_ticket_complete returns for row i once gather handed back
\* both results: the ticket's exception is raised before the comments' one,
\* and with neither the custom fields are parsed, which raises or not.
\* `subject` stands for every content field copied from the response.
FetchRecord(i, tt, ct, escalation) ==
    IF tt.pc = "raised" \/ ct.pc = "raised" \/ escalation = "AttributeError"
    THEN LET e == IF tt.pc = "raised" THEN tt.result
                  ELSE IF ct.pc = "raised" THEN ct.result ELSE escalation
         IN [ticket_id |-> ticket_ids[i], serial_no |-> i, processing_status |-> "failed",
             error |-> ErrorText(e), error_type |-> e]
    ELSE [ticket_id |-> ticket_ids[i], serial_no |-> i, subject |-> "subject",
          processing_status |-> "success"]

\* fetch_ticket_complete after its gather, then _fetch_with_progress's callback.
fetch_ticket_complete(i, escalation) ==
    /\ stage["fetch"] = "running"
    /\ Finished(task["fetch_ticket"][i])
    /\ Finished(task["fetch_comments"][i])
    /\ <<"fetch", i>> \notin DOMAIN heap
    /\ heap' = Alloc(heap, <<"fetch", i>>,
                     FetchRecord(i, task["fetch_ticket"][i], task["fetch_comments"][i], escalation))
    /\ progress_callback("fetch", i, FetchSucceeded(heap'[<<"fetch", i>>]))
    /\ UNCHANGED <<parser, written, scenarioA, inputs, phase, stage, lists, semaphore, task, analyze_index, calls, invoked>>

\* What fetch_multiple_tickets' gather hands back: the results in task order.
FetchResults == [i \in Positions |-> <<"fetch", i>>]

\* A gather that hands back as soon as one task is done.
AllFetched_first_completed == \E i \in Positions : <<"fetch", i>> \in DOMAIN heap

\* `await asyncio.gather(*tasks)` of fetch_multiple_tickets is over: every
\* _fetch_with_progress task returned its record.
AllFetched == \A i \in Positions : <<"fetch", i>> \in DOMAIN heap

fetch_gather ==
    /\ stage["fetch"] = "running"
    /\ AllFetched
    /\ fetched_tickets' = FetchResults
    /\ stage' = [stage EXCEPT !["fetch"] = "returned"]
    /\ phase' = "synthesis"
    /\ UNCHANGED <<parser, written, scenarioA, inputs, heap, synthesized_tickets, categorized_tickets,
                   diagnostics_tickets, processed_tickets, analyzed_tickets, semaphore, task,
                   analyze_index, calls, invoked, progress>>

FetchNext ==
    \/ fetch_multiple_tickets
    \/ \E i \in Positions : \E op \in {"fetch_ticket", "fetch_comments"} : fetch_acquire(op, i)
    \/ \E i \in Positions : \E s \in FetchTicketStatuses : fetch_ticket(i, s)
    \/ \E i \in Positions : \E s \in FetchCommentsStatuses : fetch_comments(i, s)
    \/ \E i \in Positions : \E e \in EscalationOutcomes : fetch_ticket_complete(i, e)
    \/ fetch_gather

\* -------------------------------------------------------- synthesis stage
Indices(s) == [j \in 1..Len(s) |-> j]

\* tickets_to_synthesize of synthesis_phase and synthesize_multiple
SynthesisEligible(j) == FetchSucceeded(heap[fetched_tickets[j]])

\* parse_response on the text of the LLM: the four sections, a section that
\* is absent left at "".
LLMTexts == {"full", "no_summary"}
parse_response(text) ==
    [issue_reported |-> "text", root_cause |-> "text",
     summary |-> IF text = "full" THEN "text" ELSE "", resolution |-> "text"]

\* The object a stage's copy of the ticket object o lives in.
CopyOf(tag, o) == <<tag, o[2]>>

\* synthesis_phase: returns the list as it is when no fetch succeeded, else
\* calls synthesize_multiple, which schedules _synthesize_with_progress for
\* every eligible ticket.
synthesis_phase ==
    /\ phase = "synthesis"
    /\ stage["synthesis"] = "idle"
    /\ IF \E j \in Positions : SynthesisEligible(j)
       THEN /\ stage' = [stage EXCEPT !["synthesis"] = "running"]
            /\ task' = [Forget(task, {"fetch_ticket", "fetch_comments"}, NoTask)
                            EXCEPT !["synthesize_ticket"] =
                                [j \in Positions |-> IF SynthesisEligible(j) THEN NewTask ELSE NoTask]]
            /\ invoked' = [Forget(invoked, {"fetch_ticket", "fetch_comments"}, 0)
                            EXCEPT !["synthesize_ticket"] =
                                [j \in Positions |-> IF SynthesisEligible(j) THEN 1 ELSE 0]]
            /\ UNCHANGED <<phase, synthesized_tickets>>
       ELSE /\ stage' = [stage EXCEPT !["synthesis"] = "returned"]
            /\ synthesized_tickets' = fetched_tickets
            /\ phase' = "analysis"
            /\ task' = Forget(task, {"fetch_ticket", "fetch_comments"}, NoTask)
            /\ invoked' = Forget(invoked, {"fetch_ticket", "fetch_comments"}, 0)
    /\ calls' = Forget(calls, {"fetch_ticket", "fetch_comments"}, 0)
    /\ UNCHANGED <<parser, written, scenarioA, inputs, heap, fetched_tickets, categorized_tickets, diagnostics_tickets,
                   processed_tickets, analyzed_tickets, semaphore, analyze_index, progress>>

\* synthesize_ticket enters the gate and hands generate_content to the executor.
synthesize_acquire(j) ==
    /\ stage["synthesis"] = "running"
    /\ task["synthesize_ticket"][j].pc = "acquire"
    /\ CanAcquire("synthesizer")
    /\ semaphore' = Acquire("synthesizer")
    /\ task' = [task EXCEPT !["synthesize_ticket"][j].pc = "call"]
    /\ calls' = [calls EXCEPT !["synthesize_ticket"][j] = @ + 1]
    /\ UNCHANGED <<parser, written, scenarioA, inputs, phase, stage, heap, lists, analyze_index, invoked, progress>>

\* _synthesize_with_progress after synthesize_ticket raised for good: the
\* callback with success=False, then the exception goes on to gather.
RaisedHook(s, op, j, e) ==
    IF retry_on_failure(op, task[op][j], e).pc = "raised"
    THEN progress_callback(s, j, FALSE)
    ELSE UNCHANGED progress

\* synthesize_ticket leaving the gate before its inter-call sleep.
synthesize_ticket_sleep_outside_gate(j, response) ==
    LET o == fetched_tickets[j]
        r == CopyOf("synth", o)
    IN
    /\ stage["synthesis"] = "running"
    /\ task["synthesize_ticket"][j].pc = "call"
    /\ semaphore' = Release("synthesizer")
    /\ IF response \in LLMTexts
       THEN /\ heap' = Alloc(heap, r, Put(heap[o], "synthesis", parse_response(response)))
            /\ task' = [task EXCEPT !["synthesize_ticket"][j] =
                            [pc |-> "sleep", attempt |-> @.attempt, result |-> r]]
            /\ UNCHANGED <<invoked, progress>>
       ELSE /\ Raises("synthesize_ticket", j, "Failed to synthesize ticket")
            /\ RaisedHook("synthesis", "synthesize_ticket", j, "Failed to synthesize ticket")
            /\ UNCHANGED heap
    /\ scenarioA' = (scenarioA /\ response = Answer("synthesize_ticket", j))
    /\ UNCHANGED <<parser, written, inputs, phase, stage, lists, analyze_index, calls>>

\* The LLM call of synthesize_ticket comes back.  A text is parsed and put
\* on a copy of the ticket, and the coroutine sleeps GEMINI_REQUEST_DELAY
\* inside the gate; an exception or an empty response raises GeminiAPIError.
synthesize_ticket(j, response) ==
    LET o == fetched_tickets[j]
        r == CopyOf("synth", o)
    IN
    /\ stage["synthesis"] = "running"
    /\ task["synthesize_ticket"][j].pc = "call"
    /\ IF response \in LLMTexts
       THEN /\ heap' = Alloc(heap, r, Put(heap[o], "synthesis", parse_response(response)))
            /\ IF GEMINI_REQUEST_DELAY > 0
               THEN /\ task' = [task EXCEPT !["synthesize_ticket"][j] =
                                    [pc |-> "sleep", attempt |-> @.attempt, result |-> r]]
                    /\ UNCHANGED <<semaphore, invoked, progress>>
               ELSE /\ semaphore' = Release("synthesizer")
                    /\ Returns("synthesize_ticket", j, r)
                    /\ progress_callback("synthesis", j, TRUE)
       ELSE /\ semaphore' = Release("synthesizer")
            /\ Raises("synthesize_ticket", j, "Failed to synthesize ticket")
            /\ RaisedHook("synthesis", "synthesize_ticket", j, "Failed to synthesize ticket")
            /\ UNCHANGED heap
    /\ scenarioA' = (scenarioA /\ response = Answer("synthesize_ticket", j))
    /\ UNCHANGED <<parser, written, inputs, phase, stage, lists, analyze_index, calls>>

\* The inter-call sleep of synthesize_ticket ends: the result is returned,
\* the gate is left, and _synthesize_with_progress calls back with success=True.
synthesize_sleep(j) ==
    /\ stage["synthesis"] = "running"
    /\ task["synthesize_ticket"][j].pc = "sleep"
    /\ semaphore' = Release("synthesizer")
    /\ Returns("synthesize_ticket", j, task["synthesize_ticket"][j].result)
    /\ progress_callback("synthesis", j, TRUE)
    /\ UNCHANGED <<parser, written, scenarioA, inputs, phase, stage, heap, lists, analyze_index, calls>>

\* The result loop without `results.extend(...)` of the unscheduled tickets.
BatchResults_without_skipped(tickets, op, tag) ==
    LET scheduled == SelectSeq(Indices(tickets), LAMBDA j : task[op][j].pc # "none")
    IN [k \in 1..Len(scheduled) |->
            IF task[op][scheduled[k]].pc = "raised"
            THEN CopyOf(tag, tickets[scheduled[k]])
            ELSE task[op][scheduled[k]].result]

\* The loops after gather(*tasks, return_exceptions=True) in
\* synthesize_multiple and categorize_multiple: per scheduled task, in task
\* order, the returned object or a marked copy of the input; then the
\* tickets that were not scheduled.
BatchResults(tickets, op, tag) ==
    LET scheduled == SelectSeq(Indices(tickets), LAMBDA j : task[op][j].pc # "none")
        skipped == SelectSeq(Indices(tickets), LAMBDA j : task[op][j].pc = "none")
    IN [k \in 1..Len(scheduled) |->
            IF task[op][scheduled[k]].pc = "raised"
            THEN CopyOf(tag, tickets[scheduled[k]])
            ELSE task[op][scheduled[k]].result]
       \o [k \in 1..Len(skipped) |-> tickets[skipped[k]]]

\* The positions whose task handed an exception to gather.
RaisedAt(tickets, op) == {j \in DOMAIN tickets : task[op][j].pc = "raised"}

\* ticket.copy() with synthesize_multiple's failure fields set
SynthesisFailed(d, e) == Put(Put(d, "processing_status", "synthesis_failed"), "synthesis_error", e)

\* A failure copy that keeps the status and drops the stringified error.
CategorizationFailed_status_only(d, e) == Put(d, "categorization_status", "failed")

\* ticket.copy() with categorize_multiple's failure fields set
CategorizationFailed(d, e) == Put(Put(d, "categorization_status", "failed"), "categorization_error", e)

\* The failure copy the result loop of a batch makes: the synthesizer's for
\* tag "synth", the categorizer's for tag "cat".
FailedCopy(tag, d, e) ==
    IF tag = "synth" THEN SynthesisFailed(d, e) ELSE CategorizationFailed(d, e)

\* The heap after the result loop made its copies: for every raised task a
\* fresh object holding the failure copy of the input dict.
WithFailedCopies(h, tickets, op, tag) ==
    LET fresh == {CopyOf(tag, tickets[j]) : j \in RaisedAt(tickets, op)}
    IN [o \in DOMAIN h \cup fresh |->
            IF o \in DOMAIN h THEN h[o]
            ELSE LET j == CHOOSE j \in RaisedAt(tickets, op) : CopyOf(tag, tickets[j]) = o
                 IN FailedCopy(tag, h[tickets[j]], task[op][j].result)]

\* gather without return_exceptions=True: it ends with the first exception.
AllFinished_or_one_raised(op) ==
    \/ \E j \in Positions : task[op][j].pc = "raised"
    \/ \A j \in Positions : task[op][j].pc \in {"none", "returned", "raised"}

\* `await asyncio.gather(*tasks, return_exceptions=True)` is over: every
\* scheduled task returned or raised.
AllFinished(op) == \A j \in Positions : task[op][j].pc \in {"none", "returned", "raised"}

\* synthesize_multiple after its gather.
synthesize_multiple ==
    /\ stage["synthesis"] = "running"
    /\ AllFinished("synthesize_ticket")
    /\ heap' = WithFailedCopies(heap, fetched_tickets, "synthesize_ticket", "synth")
    /\ synthesized_tickets' = BatchResults(fetched_tickets, "synthesize_ticket", "synth")
    /\ stage' = [stage EXCEPT !["synthesis"] = "returned"]
    /\ phase' = "analysis"
    /\ UNCHANGED <<parser, written, scenarioA, inputs, fetched_tickets, categorized_tickets, diagnostics_tickets,
                   processed_tickets, analyzed_tickets, semaphore, task, analyze_index,
                   calls, invoked, progress>>

SynthesisNext ==
    \/ synthesis_phase
    \/ \E j \in Positions : synthesize_acquire(j)
    \/ \E j \in Positions : \E r \in LLMTexts \cup {"error"} : synthesize_ticket(j, r)
    \/ \E j \in Positions : synthesize_sleep(j)
    \/ synthesize_multiple

\* --------------------------------------------------- categorization stage
\* t.get('processing_status') == 'success' and 'synthesis' in t
HasSynthesis(d) == FetchSucceeded(d) /\ "synthesis" \in DOMAIN d

\* tickets_to_categorize of categorization_phase and categorize_multiple,
\* tickets_to_analyze of diagnostics_phase
AnalysisEligible(j) == HasSynthesis(heap[synthesized_tickets[j]])

\* categorization_phase: returns the list as it is when no ticket has a
\* synthesis, else calls categorize_multiple, which schedules
\* _categorize_with_progress for every eligible ticket.
categorization_phase ==
    /\ phase = "analysis"
    /\ analysis_type \in {"pod", "both"}
    /\ stage["categorization"] = "idle"
    /\ IF \E j \in Positions : AnalysisEligible(j)
       THEN /\ stage' = [stage EXCEPT !["categorization"] = "running"]
            /\ task' = [Forget(task, {"synthesize_ticket"}, NoTask)
                            EXCEPT !["categorize_ticket"] =
                                [j \in Positions |-> IF AnalysisEligible(j) THEN NewTask ELSE NoTask]]
            /\ invoked' = [Forget(invoked, {"synthesize_ticket"}, 0)
                            EXCEPT !["categorize_ticket"] =
                                [j \in Positions |-> IF AnalysisEligible(j) THEN 1 ELSE 0]]
            /\ UNCHANGED categorized_tickets
       ELSE /\ stage' = [stage EXCEPT !["categorization"] = "returned"]
            /\ categorized_tickets' = synthesized_tickets
            /\ task' = Forget(task, {"synthesize_ticket"}, NoTask)
            /\ invoked' = Forget(invoked, {"synthesize_ticket"}, 0)
    /\ calls' = Forget(calls, {"synthesize_ticket"}, 0)
    /\ UNCHANGED <<parser, written, scenarioA, inputs, phase, heap, fetched_tickets, synthesized_tickets, diagnostics_tickets,
                   processed_tickets, analyzed_tickets, semaphore, analyze_index, progress>>

\* `not synthesis or not synthesis.get('summary')` of categorize_ticket
MissingSynthesis(d) ==
    \/ "synthesis" \notin DOMAIN d
    \/ Get(d["synthesis"], "summary", "") = ""

\* categorize_ticket enters the gate.  Without a summary it raises at once,
\* leaving the gate with no call made; else it hands generate_content to
\* the executor.
categorize_acquire(j) ==
    LET e == "Failed to categorize ticket: missing synthesis data"
    IN
    /\ stage["categorization"] = "running"
    /\ task["categorize_ticket"][j].pc = "acquire"
    /\ CanAcquire("categorizer")
    /\ IF MissingSynthesis(heap[synthesized_tickets[j]])
       THEN /\ Raises("categorize_ticket", j, e)
            /\ RaisedHook("categorization", "categorize_ticket", j, e)
            /\ UNCHANGED <<semaphore, calls>>
       ELSE /\ semaphore' = Acquire("categorizer")
            /\ task' = [task EXCEPT !["categorize_ticket"][j].pc = "call"]
            /\ calls' = [calls EXCEPT !["categorize_ticket"][j] = @ + 1]
            /\ UNCHANGED <<invoked, progress>>
    /\ UNCHANGED <<parser, written, scenarioA, inputs, phase, stage, heap, lists, analyze_index>>

\* The dict parse_categorization_response makes of the LLM's text.
Categorization(text) == [primary_pod |-> "pod", confidence |-> "confident"]

\* The LLM call of categorize_ticket comes back.  A text is parsed and put
\* on a copy of the ticket, and the coroutine sleeps GEMINI_REQUEST_DELAY
\* inside the gate; an exception or an empty response raises GeminiAPIError.
categorize_ticket(j, response) ==
    LET o == synthesized_tickets[j]
        r == CopyOf("cat", o)
        e == "Failed to categorize ticket"
    IN
    /\ stage["categorization"] = "running"
    /\ task["categorize_ticket"][j].pc = "call"
    /\ IF response = "text"
       THEN /\ heap' = Alloc(heap, r, Put(heap[o], "categorization", Categorization(response)))
            /\ IF GEMINI_REQUEST_DELAY > 0
               THEN /\ task' = [task EXCEPT !["categorize_ticket"][j] =
                                    [pc |-> "sleep", attempt |-> @.attempt, result |-> r]]
                    /\ UNCHANGED <<semaphore, invoked, progress>>
               ELSE /\ semaphore' = Release("categorizer")
                    /\ Returns("categorize_ticket", j, r)
                    /\ progress_callback("categorization", j, TRUE)
       ELSE /\ semaphore' = Release("categorizer")
            /\ Raises("categorize_ticket", j, e)
            /\ RaisedHook("categorization", "categorize_ticket", j, e)
            /\ UNCHANGED heap
    /\ scenarioA' = (scenarioA /\ response = Answer("categorize_ticket", j))
    /\ UNCHANGED <<parser, written, inputs, phase, stage, lists, analyze_index, calls>>

\* The inter-call sleep of categorize_ticket ends: the result is returned,
\* the gate is left, and _categorize_with_progress calls back with success=True.
categorize_sleep(j) ==
    /\ stage["categorization"] = "running"
    /\ task["categorize_ticket"][j].pc = "sleep"
    /\ semaphore' = Release("categorizer")
    /\ Returns("categorize_ticket", j, task["categorize_ticket"][j].result)
    /\ progress_callback("categorization", j, TRUE)
    /\ UNCHANGED <<parser, written, scenarioA, inputs, phase, stage, heap, lists, analyze_index, calls>>

\* categorize_multiple after its gather.
categorize_multiple ==
    /\ stage["categorization"] = "running"
    /\ AllFinished("categorize_ticket")
    /\ heap' = WithFailedCopies(heap, synthesized_tickets, "categorize_ticket", "cat")
    /\ categorized_tickets' = BatchResults(synthesized_tickets, "categorize_ticket", "cat")
    /\ stage' = [stage EXCEPT !["categorization"] = "returned"]
    /\ UNCHANGED <<parser, written, scenarioA, inputs, phase, fetched_tickets, synthesized_tickets, diagnostics_tickets,
                   processed_tickets, analyzed_tickets, semaphore, task, analyze_index,
                   calls, invoked, progress>>

CategorizationNext ==
    \/ categorization_phase
    \/ \E j \in Positions : categorize_acquire(j)
    \/ \E j \in Positions : \E r \in {"text", "error"} : categorize_ticket(j, r)
    \/ \E j \in Positions : categorize_sleep(j)
    \/ categorize_multiple

\* ------------------------------------------------------ diagnostics stage
\* diagnostics_phase: returns the list as it is when no ticket has a
\* synthesis, else calls analyze_multiple.  In analysis type "both" the
\* phase is the second of two asyncio tasks and starts after the first.
diagnostics_phase ==
    /\ phase = "analysis"
    /\ analysis_type \in {"diagnostics", "both"}
    /\ analysis_type = "both" => stage["categorization"] # "idle"
    /\ stage["diagnostics"] = "idle"
    /\ IF \E j \in Positions : AnalysisEligible(j)
       THEN /\ stage' = [stage EXCEPT !["diagnostics"] = "running"]
            /\ analyze_index' = 1
            /\ UNCHANGED diagnostics_tickets
       ELSE /\ stage' = [stage EXCEPT !["diagnostics"] = "returned"]
            /\ diagnostics_tickets' = synthesized_tickets
            /\ UNCHANGED analyze_index
    /\ task' = Forget(task, {"synthesize_ticket"}, NoTask)
    /\ invoked' = Forget(invoked, {"synthesize_ticket"}, 0)
    /\ calls' = Forget(calls, {"synthesize_ticket"}, 0)
    /\ UNCHANGED <<parser, written, scenarioA, inputs, phase, heap, fetched_tickets, synthesized_tickets, categorized_tickets,
                   processed_tickets, analyzed_tickets, semaphore, progress>>

\* `ticket.get("processing_status") == "failed"` of analyze_multiple
AnalysisSkipped(d) == Get(d, "processing_status", "None") = "failed"

\* The in-place marks analyze_multiple leaves on a ticket.
DiagnosticsSkipped(d) ==
    Put(Put(d, "diagnostics_analysis_status", "skipped"), "diagnostics_analysis_error", "Synthesis failed")
DiagnosticsFailed_without_message(d, e) == Put(d, "diagnostics_analysis_status", "failed")
DiagnosticsFailed(d, e) ==
    Put(Put(d, "diagnostics_analysis_status", "failed"), "diagnostics_analysis_error", e)
DiagnosticsSucceeded(d, a) ==
    Put(Put(d, "diagnostics_analysis", a), "diagnostics_analysis_status", "success")

\* One turn of analyze_multiple's loop ends: the ticket joins
\* analyzed_tickets, the callback is called, the loop moves on.
LoopOn(j) ==
    /\ analyzed_tickets' = Append(analyzed_tickets, synthesized_tickets[j])
    /\ progress_callback("diagnostics", j,
            Get(heap'[synthesized_tickets[j]], "diagnostics_analysis_status", "None") = "success")
    /\ analyze_index' = j + 1

\* analyze_multiple reaches ticket j: a ticket whose status is "failed" is
\* marked skipped; any other one is handed to analyze_ticket.
analyze_multiple(j) ==
    LET o == synthesized_tickets[j]
    IN
    /\ stage["diagnostics"] = "running"
    /\ analyze_index = j
    /\ task["analyze_ticket"][j].pc = "none"
    /\ IF AnalysisSkipped(heap[o])
       THEN /\ heap' = [heap EXCEPT ![o] = DiagnosticsSkipped(@)]
            /\ LoopOn(j)
            /\ UNCHANGED <<task, invoked>>
       ELSE /\ task' = [task EXCEPT !["analyze_ticket"][j] = NewTask]
            /\ invoked' = [invoked EXCEPT !["analyze_ticket"][j] = @ + 1]
            /\ UNCHANGED <<heap, analyzed_tickets, progress, analyze_index>>
    /\ UNCHANGED <<parser, written, scenarioA, inputs, phase, stage, fetched_tickets, synthesized_tickets, categorized_tickets,
                   diagnostics_tickets, processed_tickets, semaphore, calls>>

\* What the diagnostics LLM answers in a run: a text with the JSON object of
\* an analysis, a text with no JSON object, a text whose JSON is malformed,
\* or an exception.
DiagnosticsAnswers == {"json", "no_json", "malformed_json", "error"}

\* response.text of an answer that is not an exception
ResponseText(response) ==
    CASE response = "json" -> [json |-> "object", data |-> AnalysisObject]
      [] response = "no_json" -> [json |-> "none"]
      [] response = "malformed_json" -> [json |-> "malformed"]

\* analyze_ticket enters the gate and hands generate_content to a thread.
analyze_acquire(j) ==
    /\ stage["diagnostics"] = "running"
    /\ task["analyze_ticket"][j].pc = "acquire"
    /\ CanAcquire("diagnostics")
    /\ semaphore' = Acquire("diagnostics")
    /\ task' = [task EXCEPT !["analyze_ticket"][j].pc = "call"]
    /\ calls' = [calls EXCEPT !["analyze_ticket"][j] = @ + 1]
    /\ UNCHANGED <<parser, written, scenarioA, inputs, phase, stage, heap, lists, analyze_index, invoked, progress>>

\* The LLM call of analyze_ticket comes back.  A text is parsed (to None
\* when it holds no valid JSON analysis) and the coroutine sleeps
\* request_delay inside the gate.  An exception raises GeminiAPIError to
\* analyze_multiple, which marks the ticket failed and moves on.
analyze_ticket(j, response) ==
    LET o == synthesized_tickets[j]
        e == "Diagnostics analysis failed for ticket"
    IN
    /\ stage["diagnostics"] = "running"
    /\ task["analyze_ticket"][j].pc = "call"
    /\ IF response = "error"
       THEN /\ semaphore' = Release("diagnostics")
            /\ Raises("analyze_ticket", j, e)
            /\ IF retry_on_failure("analyze_ticket", task["analyze_ticket"][j], e).pc = "raised"
               THEN /\ heap' = [heap EXCEPT ![o] = DiagnosticsFailed(@, e)]
                    /\ LoopOn(j)
               ELSE UNCHANGED <<heap, analyzed_tickets, progress, analyze_index>>
       ELSE /\ task' = [task EXCEPT !["analyze_ticket"][j] =
                            [pc |-> "sleep", attempt |-> @.attempt,
                             result |-> IF analysis_of(ResponseText(response), "source").none
                                        THEN "None" ELSE "analysis"]]
            /\ UNCHANGED <<semaphore, invoked, heap, analyzed_tickets, progress, analyze_index>>
    /\ scenarioA' = (scenarioA /\ response = Answer("analyze_ticket", j))
    /\ UNCHANGED <<parser, written, inputs, phase, stage, fetched_tickets, synthesized_tickets, categorized_tickets,
                   diagnostics_tickets, processed_tickets, calls>>

\* The sleep of analyze_ticket ends: the analysis (or None) is returned, the
\* gate is left, and analyze_multiple stores the outcome on the ticket.
analyze_sleep(j) ==
    LET o == synthesized_tickets[j]
        a == task["analyze_ticket"][j].result
    IN
    /\ stage["diagnostics"] = "running"
    /\ task["analyze_ticket"][j].pc = "sleep"
    /\ semaphore' = Release("diagnostics")
    /\ Returns("analyze_ticket", j, a)
    /\ heap' = [heap EXCEPT ![o] = IF a # "None" THEN DiagnosticsSucceeded(@, a)
                                   ELSE DiagnosticsFailed(@, "Failed to parse LLM response")]
    /\ LoopOn(j)
    /\ UNCHANGED <<parser, written, scenarioA, inputs, phase, stage, fetched_tickets, synthesized_tickets, categorized_tickets,
                   diagnostics_tickets, processed_tickets, calls>>

\* analyze_multiple's loop is over: analyzed_tickets is returned.
analyze_return ==
    /\ stage["diagnostics"] = "running"
    /\ analyze_index > Len(synthesized_tickets)
    /\ diagnostics_tickets' = analyzed_tickets
    /\ stage' = [stage EXCEPT !["diagnostics"] = "returned"]
    /\ UNCHANGED <<parser, written, scenarioA, inputs, phase, heap, fetched_tickets, synthesized_tickets, categorized_tickets,
                   processed_tickets, analyzed_tickets, semaphore, task, analyze_index,
                   calls, invoked, progress>>

DiagnosticsNext ==
    \/ diagnostics_phase
    \/ \E j \in Positions : analyze_multiple(j)
    \/ \E j \in Positions : analyze_acquire(j)
    \/ \E j \in Positions : \E r \in DiagnosticsAnswers : analyze_ticket(j, r)
    \/ \E j \in Positions : analyze_sleep(j)
    \/ analyze_return

\* ------------------------------------------------------------------ run()
\* The merge loop of analysis type "both": ticket i of the categorized list
\* takes the diagnostics fields of ticket i of the diagnostics list.
RECURSIVE Merge(_, _, _, _)
Merge(h, cs, ds, i) ==
    IF i > Len(cs) THEN h
    ELSE IF i > Len(ds) THEN Merge(h, cs, ds, i + 1)
    ELSE LET d == h[ds[i]]
             c1 == IF "diagnostics_analysis" \in DOMAIN d
                   THEN Put(h[cs[i]], "diagnostics_analysis", d["diagnostics_analysis"])
                   ELSE h[cs[i]]
             c2 == IF "diagnostics_analysis_status" \in DOMAIN d
                   THEN Put(c1, "diagnostics_analysis_status", d["diagnostics_analysis_status"])
                   ELSE c1
         IN Merge([h EXCEPT ![cs[i]] = c2], cs, ds, i + 1)

\* The metadata block of generate_output for the summarizer's analysis
\* type, from self.stats (total_tickets is len(ticket_ids), set by run();
\* the breakdowns, the escalation rates and the times are left out).
Metadata ==
    CASE analysis_type = "pod" ->
            [analysis_type |-> "pod",
             total_tickets |-> Len(ticket_ids),
             successfully_processed |-> stats["categorization_success"],
             synthesis_failed |-> stats["synthesis_failed"],
             categorization_failed |-> stats["categorization_failed"],
             failed |-> stats["fetch_failed"] + stats["synthesis_failed"]
                        + stats["categorization_failed"]]
      [] analysis_type = "diagnostics" ->
            [analysis_type |-> "diagnostics",
             total_tickets |-> Len(ticket_ids),
             successfully_processed |-> stats["diagnostics_analysis_success"],
             synthesis_failed |-> stats["synthesis_failed"],
             diagnostics_analysis_failed |-> stats["diagnostics_analysis_failed"],
             failed |-> stats["fetch_failed"] + stats["synthesis_failed"]
                        + stats["diagnostics_analysis_failed"]]
      [] analysis_type = "both" ->
            [analysis_type |-> "both",
             total_tickets |-> Len(ticket_ids),
             successfully_processed |-> IF stats["categorization_success"]
                                             <= stats["diagnostics_analysis_success"]
                                        THEN stats["categorization_success"]
                                        ELSE stats["diagnostics_analysis_success"],
             synthesis_failed |-> stats["synthesis_failed"],
             categorization_failed |-> stats["categorization_failed"],
             diagnostics_analysis_failed |-> stats["diagnostics_analysis_failed"],
             failed |-> stats["fetch_failed"] + stats["synthesis_failed"]
                        + (IF stats["categorization_failed"]
                                >= stats["diagnostics_analysis_failed"]
                           THEN stats["categorization_failed"]
                           ELSE stats["diagnostics_analysis_failed"])]

\* The entry generate_output appends to output["errors"] for a ticket
ErrorEntry(d) ==
    [ticket_id |-> d.ticket_id, serial_no |-> d.serial_no,
     error_type |-> Get(d, "error_type", "UnknownError"),
     message |-> Get(d, "error", "Unknown error occurred")]

\* generate_output on the list `tickets` of the objects of heap h: every
\* ticket goes to output["tickets"], and every ticket that is not
\* (processing_status success with a synthesis) also to output["errors"].
generate_output(h, tickets) ==
    LET failed == SelectSeq(Indices(tickets), LAMBDA k : ~HasSynthesis(h[tickets[k]]))
    IN [metadata |-> Metadata,
        tickets |-> tickets,
        errors |-> [k \in 1..Len(failed) |-> ErrorEntry(h[tickets[failed[k]]])]]

\* The metadata dict after save_output's assignments.  In type "both"
\* pod_output and diag_output are output.copy(): two dicts whose
\* "metadata" is the one metadata dict of output, assigned to twice.
SavedMetadata(out) ==
    IF analysis_type = "both"
    THEN Put(Put(out.metadata, "analysis_type", "pod"), "analysis_type", "diagnostics")
    ELSE out.metadata

\* The files save_output writes with json.dump, after the assignments: in
\* type "both" pod_output and diag_output, else output.  (A file is kept as
\* the metadata in it; its tickets and errors are those of output.)
save_output(out) ==
    IF analysis_type = "both"
    THEN [f \in {"output_pod", "output_diagnostics"} |-> SavedMetadata(out)]
    ELSE IF analysis_type = "pod"
         THEN [f \in {"output_pod"} |-> SavedMetadata(out)]
         ELSE [f \in {"output_diagnostics"} |-> SavedMetadata(out)]

\* run() after phase 3: processed_tickets is the list of the one analysis,
\* or the categorized list merged with the diagnostics list; the output is
\* generated from it and saved.
run ==
    /\ phase = "analysis"
    /\ analysis_type \in {"pod", "both"} => stage["categorization"] = "returned"
    /\ analysis_type \in {"diagnostics", "both"} => stage["diagnostics"] = "returned"
    /\ phase' = "done"
    /\ processed_tickets' = IF analysis_type = "diagnostics" THEN diagnostics_tickets
                            ELSE categorized_tickets
    /\ heap' = IF analysis_type = "both"
               THEN Merge(heap, categorized_tickets, diagnostics_tickets, 1)
               ELSE heap
    /\ output' = [generate_output(heap', processed_tickets')
                    EXCEPT !.metadata = SavedMetadata(generate_output(heap', processed_tickets'))]
    /\ files' = save_output(generate_output(heap', processed_tickets'))
    /\ UNCHANGED <<parser, scenarioA, inputs, stage, fetched_tickets, synthesized_tickets, categorized_tickets,
                   diagnostics_tickets, analyzed_tickets, semaphore, task, analyze_index,
                   calls, invoked, progress>>

Next ==
    \/ FetchNext
    \/ SynthesisNext
    \/ CategorizationNext
    \/ DiagnosticsNext
    \/ run

Spec == Init /\ [][Next]_vars

\* The run under asyncio's scheduling, with every remote call answered in
\* the end: the event loop resumes a coroutine that can go on, and a call
\* that is in flight returns or raises (each request has its timeout), so
\* a step that is possible is not put off forever.
FairSpec == Spec /\ WF_vars(Next)

\* ------------------------------------------------ the parsers on their own
\* One parser or derivation is applied once to one input an LLM can give;
\* the pipeline stays as constructed.
ParserInit ==
    /\ Constructed
    /\ analysis_type = "both"
    /\ invocation \in DeriveInvocations \cup AnalyzeInvocations
                        \cup CategorizationInvocations \cup SynthesisInvocations
    /\ returned = Pending

ParserNext ==
    \/ call_derive_overall_assessment
    \/ call_analyze_ticket
    \/ call_parse_categorization_response
    \/ call_parse_response

ParserSpec == ParserInit /\ [][ParserNext]_vars



\* ===================================================================
\* Properties
\* ===================================================================
\* The ticket IDs of a list of ticket objects, in list order.
IdsOf(tickets) == [k \in DOMAIN tickets |-> heap[tickets[k]].ticket_id]

\* Two sequences hold the same values the same number of times.
SameMultiset(a, b) ==
    /\ Len(a) = Len(b)
    /\ \A k \in DOMAIN a : Count(a, a[k]) = Count(b, a[k])

\* The calls of a gate's operations that are in flight.
OpsOf(g) == {op \in Ops : GateOf(op) = g}
InFlight(g) == Cardinality({x \in OpsOf(g) \X Positions : task[x[1]][x[2]].pc = "call"})

\* The coroutines inside a gate's `async with` block.
Holding(g) ==
    Cardinality({x \in OpsOf(g) \X Positions : task[x[1]][x[2]].pc \in {"call", "sleep"}})

\* C1: each batch stage returns one record per input ticket: the multiset
\* of ticket IDs of its output list equals that of its input list.
C1_OneRecordPerTicket ==
    /\ stage["fetch"] = "returned" => SameMultiset(IdsOf(fetched_tickets), ticket_ids)
    /\ stage["synthesis"] = "returned" =>
            SameMultiset(IdsOf(synthesized_tickets), IdsOf(fetched_tickets))
    /\ stage["categorization"] = "returned" =>
            SameMultiset(IdsOf(categorized_tickets), IdsOf(synthesized_tickets))
    /\ stage["diagnostics"] = "returned" =>
            SameMultiset(IdsOf(diagnostics_tickets), IdsOf(synthesized_tickets))

\* Analysis type "both" with both batches returned: categorize_multiple
\* had a task that raised and a ticket it skipped, and analyze_multiple
\* analysed a ticket.
C1_Witness ==
    /\ stage["categorization"] = "returned"
    /\ \E j \in Positions : task["categorize_ticket"][j].pc = "raised"
    /\ \E j \in Positions : task["categorize_ticket"][j].pc = "none"
    /\ stage["diagnostics"] = "returned"
    /\ \E j \in Positions : task["analyze_ticket"][j].pc = "returned"

\* C2: a stage makes a remote call for a ticket only if the stage before
\* succeeded for it (processing_status "success" on the stage's input).
C2_CallsOnlyAfterSuccess ==
    \A j \in Positions :
        /\ calls["synthesize_ticket"][j] > 0 => FetchSucceeded(heap[fetched_tickets[j]])
        /\ calls["categorize_ticket"][j] > 0 => FetchSucceeded(heap[synthesized_tickets[j]])
        /\ calls["analyze_ticket"][j] > 0 => FetchSucceeded(heap[synthesized_tickets[j]])

\* C3: the calls in flight through a component's gate never outnumber its
\* slots; fetch_ticket and fetch_comments share the fetcher's gate.
C3_InFlightWithinLimit == \A g \in Gates : InFlight(g) <= GateLimit(g)

\* The fetcher's gate full, a further fetch waiting for it, and one of the
\* calls in flight being a retry.
C3_Witness ==
    /\ InFlight("fetcher") = ZENDESK_MAX_CONCURRENT
    /\ \E i \in Positions : task["fetch_ticket"][i].pc = "acquire"
    /\ \E i \in Positions : task["fetch_comments"][i].pc = "call"
                              /\ task["fetch_comments"][i].attempt = 1
    /\ \E i \in Positions : task["fetch_ticket"][i].pc = "call"

\* C4: in analysis type "both" the LLM calls in flight, categorization and
\* diagnostics together, never outnumber GEMINI_MAX_CONCURRENT.
C4_LLMCallsWithinLimit ==
    analysis_type = "both" =>
        InFlight("categorizer") + InFlight("diagnostics") <= GEMINI_MAX_CONCURRENT

\* C5: a wrapped operation that raised to its caller was invoked
\* MAX_RETRIES + 1 times and carries the exception; one that returned was
\* not invoked after the attempt that succeeded.
C5_RetryThenRaise ==
    \A op \in WrappedOps : \A i \in Positions :
        LET t == task[op][i]
        IN /\ t.pc = "raised" => invoked[op][i] = MAX_RETRIES + 1 /\ t.result # "none"
           /\ t.pc = "returned" => invoked[op][i] = t.attempt + 1
           /\ invoked[op][i] <= MAX_RETRIES + 1

\* One operation gave up after its last attempt while another returned on
\* its retry.
C5_Witness ==
    /\ \E i \in Positions : /\ task["fetch_ticket"][i].pc = "raised"
                              /\ invoked["fetch_ticket"][i] = MAX_RETRIES + 1
    /\ \E i \in Positions : /\ task["fetch_comments"][i].pc = "returned"
                              /\ task["fetch_comments"][i].attempt = 1

\* C6: a diagnostics LLM call that raises is retried: the ticket is marked
\* failed only after MAX_RETRIES + 1 calls.
C6_DiagnosticsRetried ==
    \A j \in Positions :
        task["analyze_ticket"][j].pc = "raised" =>
            /\ calls["analyze_ticket"][j] = MAX_RETRIES + 1
            /\ heap[synthesized_tickets[j]].diagnostics_analysis_status = "failed"

\* C7: a 404 ends fetch_ticket at once: the ticket's fetch raised
\* TicketNotFoundError after exactly one request, and its record is failed
\* with error_type TicketNotFoundError.
C7_NotFoundNotRetried ==
    \A i \in Positions :
        (task["fetch_ticket"][i].pc = "raised" /\ task["fetch_ticket"][i].result = "TicketNotFoundError") =>
            /\ calls["fetch_ticket"][i] = 1
            /\ <<"fetch", i>> \in DOMAIN heap =>
                    /\ heap[<<"fetch", i>>].processing_status = "failed"
                    /\ heap[<<"fetch", i>>].error_type = "TicketNotFoundError"

\* C8: a gate's free slots plus the coroutines inside its block are its
\* limit: no slot is released twice, a coroutine waiting to retry holds
\* none, and a stage that returned left every slot of its gate free.
StageGate(s) ==
    CASE s = "fetch" -> "fetcher" [] s = "synthesis" -> "synthesizer"
      [] s = "categorization" -> "categorizer" [] s = "diagnostics" -> "diagnostics"

C8_SlotsReleased ==
    /\ \A g \in Gates : semaphore[g] <= GateLimit(g)
    /\ \A g \in Gates : semaphore[g] + Holding(g) = GateLimit(g)
    /\ \A s \in Stages : stage[s] = "returned" => semaphore[StageGate(s)] = GateLimit(StageGate(s))

\* A fetch whose attempt raised waits to retry, a sibling has returned, and
\* every slot of the gate is free again.
C8_Witness ==
    /\ \E i \in Positions : (task["fetch_ticket"][i].pc = "acquire" /\ task["fetch_ticket"][i].attempt = 1)
    /\ \E k \in Positions : task["fetch_comments"][k].pc = "returned"
    /\ semaphore["fetcher"] = ZENDESK_MAX_CONCURRENT

\* C9: when synthesize_multiple or categorize_multiple has returned, every
\* scheduled task has finished, and every task that returned has its result,
\* carrying the stage's block, in the output list.
C9_SiblingsComplete ==
    /\ \A j \in Positions :
          LET t == task["synthesize_ticket"][j]
          IN (stage["synthesis"] = "returned" /\ t.pc # "none") =>
                /\ Finished(t)
                /\ t.pc = "returned" =>
                      /\ \E k \in DOMAIN synthesized_tickets : synthesized_tickets[k] = t.result
                      /\ "synthesis" \in DOMAIN heap[t.result]
                      /\ heap[t.result].ticket_id = heap[fetched_tickets[j]].ticket_id
    /\ \A j \in Positions :
          LET t == task["categorize_ticket"][j]
          IN (stage["categorization"] = "returned" /\ t.pc # "none") =>
                /\ Finished(t)
                /\ t.pc = "returned" =>
                      /\ \E k \in DOMAIN categorized_tickets : categorized_tickets[k] = t.result
                      /\ "categorization" \in DOMAIN heap[t.result]
                      /\ heap[t.result].ticket_id = heap[synthesized_tickets[j]].ticket_id

\* A batch that returned with one task raised and a sibling returned.
C9_Witness ==
    /\ stage["synthesis"] = "returned"
    /\ \E j, k \in Positions : /\ task["synthesize_ticket"][j].pc = "raised"
                                 /\ task["synthesize_ticket"][k].pc = "returned"

\* C10: a batch that returned has called the progress hook once for every
\* ticket it attempted and never for a ticket it skipped.
C10_HookOncePerAttempted ==
    /\ \A s \in Stages : \A j \in Positions : hooks[s][j] <= 1
    /\ stage["synthesis"] = "returned" =>
          \A j \in Positions : hooks["synthesis"][j] = IF SynthesisEligible(j) THEN 1 ELSE 0
    /\ stage["categorization"] = "returned" =>
          \A j \in Positions : hooks["categorization"][j] = IF AnalysisEligible(j) THEN 1 ELSE 0
    /\ stage["diagnostics"] = "returned" =>
          \A j \in Positions :
              hooks["diagnostics"][j] = IF task["analyze_ticket"][j].pc # "none" THEN 1 ELSE 0

\* The fields fetch_ticket_complete gives the record of a failed fetch.
FailedFetchFields == {"ticket_id", "serial_no", "processing_status", "error", "error_type"}

\* C11: a record that is ineligible for a stage passes through it untouched
\* and is not counted as failed: a fetch-failed record keeps exactly the
\* fields its fetch gave it, and diagnostics_analysis_failed counts no more
\* tickets than analyze_ticket was called for.
C11_IneligibleUntouched ==
    /\ \A o \in DOMAIN heap :
          (o[1] = "fetch" /\ ~FetchSucceeded(heap[o])) => DOMAIN heap[o] = FailedFetchFields
    /\ stats["diagnostics_analysis_failed"]
          <= Cardinality({j \in Positions : task["analyze_ticket"][j].pc # "none"})

\* C12: scenario A end to end.  When the run is over and ticket 2's fetch
\* was answered not-found while every other remote call succeeded, the
\* output has one record per input ticket; ticket 2's is failed with
\* error_type TicketNotFoundError and has no synthesis; every other one
\* has processing_status success, a synthesis block and the analysis block
\* of the analysis type.
C12_ScenarioA ==
    (phase = "done" /\ scenarioA) =>
        /\ Len(processed_tickets) = NumTickets
        /\ \A k \in DOMAIN processed_tickets :
              LET d == heap[processed_tickets[k]]
              IN IF d.ticket_id = ticket_ids[2]
                 THEN /\ d.processing_status = "failed"
                      /\ Get(d, "error_type", "None") = "TicketNotFoundError"
                      /\ "synthesis" \notin DOMAIN d
                 ELSE /\ d.processing_status = "success"
                      /\ "synthesis" \in DOMAIN d
                      /\ analysis_type \in {"pod", "both"} => "categorization" \in DOMAIN d
                      /\ analysis_type \in {"diagnostics", "both"} =>
                              "diagnostics_analysis" \in DOMAIN d

\* The tasks of an operation that are scheduled and not finished.
Unfinished(op) == {j \in Positions : task[op][j].pc \notin {"none", "returned", "raised"}}
Attempted(op) == {j \in Positions : task[op][j].pc # "none"}

\* C13: the stages of a ticket are ordered.  A synthesis is attempted only
\* after the fetch stage returned, which it does with the record of every
\* ticket made and no fetch running; a categorization or a diagnostics
\* analysis is attempted only after the synthesis stage returned, which it
\* does with no synthesis running, and its ticket is in the synthesis
\* stage's output.
C13_StagesOrdered ==
    /\ Attempted("synthesize_ticket") # {} => stage["fetch"] = "returned"
    /\ stage["fetch"] = "returned" =>
          /\ \A i \in Positions : <<"fetch", i>> \in DOMAIN heap /\ hooks["fetch"][i] = 1
          /\ Unfinished("fetch_ticket") = {} /\ Unfinished("fetch_comments") = {}
    /\ Attempted("categorize_ticket") \cup Attempted("analyze_ticket") # {} =>
          stage["synthesis"] = "returned"
    /\ stage["synthesis"] = "returned" =>
          /\ Unfinished("synthesize_ticket") = {}
          /\ Attempted("categorize_ticket") \cup Attempted("analyze_ticket")
                \subseteq DOMAIN synthesized_tickets

\* Analysis type both after a fetch or a synthesis failed for one ticket
\* and another ticket was synthesized: a categorization call is in flight
\* and a diagnostics analysis is about to enter its gate.
C13_Witness ==
    /\ stats["synthesis_failed"] + stats["fetch_failed"] >= 1
    /\ stats["synthesis_success"] >= 1
    /\ \E j \in Positions : task["categorize_ticket"][j].pc = "call"
    /\ \E j \in Positions : task["analyze_ticket"][j].pc = "acquire"

\* The coroutines of an operation that are between their start and their end.
InProgress(op) == {j \in Positions : task[op][j].pc \in {"acquire", "call", "sleep"}}

\* C14: a ticket record that one stage is processing is not modified by
\* another stage meanwhile: no step changes the record that a
\* categorize_ticket coroutine in progress was given.
C14_OneStagePerRecord ==
    [][\A j \in InProgress("categorize_ticket") :
            heap'[synthesized_tickets[j]] = heap[synthesized_tickets[j]]]_vars

\* The nine rows of the decision table of the overall assessment.
DecisionTable ==
    (<<"yes", "yes">> :> "yes") @@ (<<"yes", "no">> :> "maybe") @@ (<<"yes", "maybe">> :> "maybe")
    @@ (<<"maybe", "yes">> :> "maybe") @@ (<<"maybe", "no">> :> "maybe")
    @@ (<<"maybe", "maybe">> :> "maybe")
    @@ (<<"no", "yes">> :> "no") @@ (<<"no", "no">> :> "no") @@ (<<"no", "maybe">> :> "no")

\* C15: for each of the nine combinations of triage and fix in
\* {yes, no, maybe}, _derive_overall_assessment returns the value the
\* decision table gives.
C15_DecisionTable ==
    (/\ invocation.fn = "_derive_overall_assessment"
     /\ returned.done
     /\ <<invocation.arg.triage, invocation.arg.fix>> \in DOMAIN DecisionTable)
        => returned.value = DecisionTable[<<invocation.arg.triage, invocation.arg.fix>>]

\* _derive_overall_assessment returned "maybe" for (yes, maybe).
C15_Witness ==
    /\ invocation.fn = "_derive_overall_assessment"
    /\ invocation.arg = [triage |-> "yes", fix |-> "maybe"]
    /\ returned.done
    /\ returned.value = "maybe"

\* C16: in the result of every successful diagnostics analysis
\* could_diagnostics_help.overall_assessment is the decision-table value of
\* the result's validated triage_assessment and fix_assessment, whatever
\* overall_assessment the LLM's JSON held.
C16_OverallDerived ==
    (/\ invocation.fn = "analyze_ticket"
     /\ returned.done
     /\ ~returned.value.none)
        => LET could_help == returned.value.some["could_diagnostics_help"]
               triage == lower(strip(could_help["triage_assessment"]))
               fix == lower(strip(could_help["fix_assessment"]))
           IN /\ <<triage, fix>> \in DOMAIN DecisionTable
              /\ "overall_assessment" \in DOMAIN could_help
              /\ could_help["overall_assessment"] = DecisionTable[<<triage, fix>>]

\* In the build as the source has it an analysis succeeded on a JSON whose
\* own overall_assessment is "no" while its assessments are (yes, yes), and
\* the result holds "yes".
C16_Witness ==
    /\ invocation.fn = "analyze_ticket"
    /\ invocation.arg.build = "source"
    /\ returned.done
    /\ ~returned.value.none
    /\ Get(invocation.arg.text.data["could_diagnostics_help"], "overall_assessment", "None") = "no"
    /\ returned.value.some["could_diagnostics_help"]["overall_assessment"] = "yes"

\* The LLM's JSON of the invocation, and its could_diagnostics_help object.
GivenData == invocation.arg.text.data
GivenCouldHelp == Get(GivenData, "could_diagnostics_help", <<>>)

\* The invocation's JSON carries an out-of-taxonomy triage gap area, and
\* with the tag remapped nothing else in it fails the validation.
OnlyTheTriageTagInvalid ==
    /\ invocation.fn = "analyze_ticket"
    /\ invocation.arg.text.json = "object"
    /\ Get(GivenCouldHelp, "triage_gap_area", "None") \notin TRIAGE_GAP_AREAS \cup {"None"}
    /\ validate_analysis_structure(normalize_gap_areas(GivenData), "completed")

\* C18: when the LLM's JSON carries a triage_gap_area outside the taxonomy
\* (and is valid otherwise), the analysis is not failed: its result has the
\* tag 'other_triage_gap' and a description made of
\* "[Auto-remapped from '<original value>'] " and the existing description.
C18_GapRemapped ==
    (OnlyTheTriageTagInvalid /\ returned.done)
        => /\ ~returned.value.none
           /\ LET could_help == returned.value.some["could_diagnostics_help"]
                  original == GivenCouldHelp["triage_gap_area"]
                  existing == Get(GivenCouldHelp, "triage_gap_description", <<>>)
              IN /\ could_help["triage_gap_area"] = "other_triage_gap"
                 /\ SubSeq(could_help["triage_gap_description"], 1, 3)
                        = <<"[Auto-remapped from '", original, "'] ">>
                 /\ existing # <<>> =>
                        SubSeq(could_help["triage_gap_description"], 4,
                               Len(could_help["triage_gap_description"])) = existing

\* C18 where the taxonomy and its validators exist.
C18_GapRemappedWhenDefined ==
    (invocation.fn = "analyze_ticket" /\ invocation.arg.build = "completed")
        => C18_GapRemapped

\* With them an analysis remapped 'made_up_gap' in front of the
\* description the JSON held.
C18_RemappedWhenDefined ==
    /\ OnlyTheTriageTagInvalid
    /\ returned.done
    /\ ~returned.value.none
    /\ returned.value.some["could_diagnostics_help"]["triage_gap_description"]
            = <<"[Auto-remapped from '", "made_up_gap", "'] ", "details">>

\* C17: parse_categorization_response returns no out-of-vocabulary value:
\* primary_pod is "" or a POD of VALID_PODS up to letter case, and "" when
\* the Primary POD section holds something else; confidence is a level of
\* CONFIDENCE_LEVELS up to letter case, and 'not confident' when the
\* Confidence section is absent or holds something else.
C17_InVocabulary ==
    (invocation.fn = "parse_categorization_response" /\ returned.done)
        => LET pod == invocation.arg.sections[1]
               conf == invocation.arg.sections[3]
               result == returned.value
           IN /\ \/ result.primary_pod = <<>>
                 \/ /\ Len(result.primary_pod) = 1
                    /\ lower(result.primary_pod[1]) \in {lower(v) : v \in VALID_PODS}
              /\ Len(result.confidence) = 1
              /\ lower(result.confidence[1]) \in CONFIDENCE_LEVELS
              /\ (pod.present /\ pod.body = <<"NotARealPod">>) => result.primary_pod = <<>>
              /\ (~conf.present \/ (conf.present /\ conf.body = <<"very confident">>))
                    => result.confidence = <<"not confident">>

\* A response with the POD 'NotARealPod' and the confidence 'very
\* confident' was parsed to primary_pod "" and confidence 'not confident',
\* its Reasoning kept.
C17_Witness ==
    /\ invocation.fn = "parse_categorization_response"
    /\ invocation.arg.sections[1] = Section(<<"NotARealPod">>)
    /\ invocation.arg.sections[2] = Section(<<"because">>)
    /\ invocation.arg.sections[3] = Section(<<"very confident">>)
    /\ returned.done
    /\ returned.value.primary_pod = <<>>
    /\ returned.value.reasoning = <<"because">>
    /\ returned.value.confidence = <<"not confident">>

\* The entries of an Alternative PODs body of the model, trimmed, and
\* those of them that are PODs.
C19_Entries ==
    (<<"Guidance, NotARealPod">> :> <<"Guidance", "NotARealPod">>)
    @@ (<<"NotARealPod, Hub , WFE">> :> <<"NotARealPod", "Hub", "WFE">>)
C19_Kept ==
    (<<"Guidance, NotARealPod">> :> <<"Guidance">>)
    @@ (<<"NotARealPod, Hub , WFE">> :> <<"Hub", "WFE">>)

\* C19: alternative_pods of parse_categorization_response is always a
\* list of PODs: [] when the Alternative PODs section is absent or holds
\* 'none' in any letter case, and otherwise the comma-separated entries of
\* the section, trimmed, without the entries that are not PODs and in
\* their order.
C19_AlternativePods ==
    (invocation.fn = "parse_categorization_response" /\ returned.done)
        => LET alt == invocation.arg.sections[5]
               pods == returned.value.alternative_pods
           IN /\ pods \in Seq(STRING)
              /\ \A i \in DOMAIN pods : lower(pods[i]) \in {lower(v) : v \in VALID_PODS}
              /\ ~alt.present => pods = <<>>
              /\ (alt.present /\ alt.body \in {<<"None">>, <<"none">>}) => pods = <<>>
              /\ (alt.present /\ alt.body \in DOMAIN C19_Entries) =>
                    /\ pods = C19_Kept[alt.body]
                    /\ \A e \in {C19_Entries[alt.body][i] : i \in DOMAIN C19_Entries[alt.body]} :
                          (\E i \in DOMAIN pods : pods[i] = e) <=> validate_pod(e)

\* The section 'Guidance, NotARealPod' was parsed to ["Guidance"].
C19_Witness ==
    /\ invocation.fn = "parse_categorization_response"
    /\ invocation.arg.sections[5] = Section(<<"Guidance, NotARealPod">>)
    /\ returned.done
    /\ returned.value.alternative_pods = <<"Guidance">>

\* The fields of the two parsers' results, in the order of their sections.
CategorizationFields ==
    <<"primary_pod", "reasoning", "confidence", "confidence_reason",
      "alternative_pods", "alternative_reasoning">>
SynthesisFields == <<"issue_reported", "root_cause", "summary", "resolution">>

\* The defaults parse_categorization_response starts from.
CategorizationDefaults ==
    [primary_pod |-> <<>>, reasoning |-> <<>>, confidence |-> <<"not confident">>,
     confidence_reason |-> <<>>, alternative_pods |-> <<>>, alternative_reasoning |-> None]

\* The sections of the invocation with the absent section n present.
WithSection(n, body) == [invocation.arg EXCEPT !.sections[n] = Section(body)]

\* parse_categorization_response returns the full structure, the field of
\* every absent section is at its default, and the field of every present
\* section is the one the parser returns for the same response with any of
\* the absent sections written into it.
AbsentSectionsCategorization ==
    (invocation.fn = "parse_categorization_response" /\ returned.done)
        => LET sections == invocation.arg.sections
               result == returned.value
           IN /\ DOMAIN result = DOMAIN CategorizationDefaults
              /\ \A n \in DOMAIN sections :
                    ~sections[n].present =>
                        /\ result[CategorizationFields[n]]
                              = CategorizationDefaults[CategorizationFields[n]]
                        /\ \A x \in DOMAIN sections :
                              sections[x].present =>
                                parse_categorization_response(
                                    CategorizationText(WithSection(n, <<"because">>)))
                                        [CategorizationFields[x]]
                                    = result[CategorizationFields[x]]

\* The same of parse_response and the four synthesis sections, all of
\* default "".
AbsentSectionsSynthesis ==
    (invocation.fn = "parse_response" /\ returned.done)
        => LET sections == invocation.arg.sections
               result == returned.value
           IN /\ DOMAIN result = {SynthesisFields[n] : n \in DOMAIN SynthesisFields}
              /\ \A n \in DOMAIN sections :
                    ~sections[n].present =>
                        /\ result[SynthesisFields[n]] = <<>>
                        /\ \A x \in DOMAIN sections :
                              sections[x].present =>
                                parse_response_lines(SynthesisText(WithSection(n, <<"because">>)))
                                        [SynthesisFields[x]]
                                    = result[SynthesisFields[x]]

\* C20: labeled-section parsing tolerates any section being absent: both
\* parsers return the full structure with each absent section's field at
\* its default, and the fields of the present sections are what they are
\* with the absent sections there.
C20_AbsentSections == AbsentSectionsCategorization /\ AbsentSectionsSynthesis

\* Every section of the invocation that is present has lines under it.
NoEmptySection ==
    \A n \in DOMAIN invocation.arg.sections :
        invocation.arg.sections[n].present => invocation.arg.sections[n].body # <<>>

\* C20 for the responses whose present sections are not empty.
C20_WhenNoSectionIsEmpty ==
    (invocation.fn \in {"parse_categorization_response", "parse_response"} /\ NoEmptySection)
        => C20_AbsentSections

\* A response whose sections are all filled, Reasoning apart which is
\* absent, was parsed to reasoning "" and the other fields as written.
C20_ParsedWithoutReasoning ==
    /\ invocation.fn = "parse_categorization_response"
    /\ invocation.arg.sections
            = <<Section(<<"Guidance">>), Absent, Section(<<"confident">>),
                Section(<<"because">>), Section(<<"None">>), Section(<<"because">>)>>
    /\ returned.done
    /\ returned.value
            = [primary_pod |-> <<"Guidance">>, reasoning |-> <<>>,
               confidence |-> <<"confident">>, confidence_reason |-> <<"because">>,
               alternative_pods |-> <<>>, alternative_reasoning |-> Some(<<"because">>)]

\* The tickets whose analysis came back as a text that holds no JSON
\* object or a malformed one: analyze_ticket returned None for them.
ParseFailed(j) ==
    /\ task["analyze_ticket"][j].pc = "returned"
    /\ task["analyze_ticket"][j].result = "None"

\* A record that reports a parse failure of the diagnostics analysis.
ReportsParseFailure(d) ==
    /\ Get(d, "diagnostics_analysis_status", "None") = "failed"
    /\ Get(d, "diagnostics_analysis_error", "None") = "Failed to parse LLM response"
    /\ "diagnostics_analysis" \notin DOMAIN d

\* The records of the run's output that belong to the ticket of record d.
OutputRecordsOf(d) ==
    {heap[processed_tickets[k]] : k \in {n \in DOMAIN processed_tickets :
                                            heap[processed_tickets[n]].ticket_id = d.ticket_id}}

C21_ReportedInEveryOutput ==
    \A j \in Positions :
        (ParseFailed(j) /\ phase = "done") =>
            \A d \in OutputRecordsOf(heap[synthesized_tickets[j]]) : ReportsParseFailure(d)

FailedFetch(d) == Get(d, "processing_status", "None") = "failed"
FailedSynthesis(d) == Get(d, "processing_status", "None") = "synthesis_failed"
FailedCategorization(d) == Get(d, "categorization_status", "None") = "failed"
FailedDiagnostics(d) == Get(d, "diagnostics_analysis_status", "None") = "failed"
FailedAtSomeStage(d) ==
    FailedFetch(d) \/ FailedSynthesis(d) \/ FailedCategorization(d) \/ FailedDiagnostics(d)

\* The record carries an error-kind tag and a message, and the error list
\* of the output has an entry of the ticket with that tag and that message.
TaggedInOutput(d) ==
    /\ {"error_type", "error"} \subseteq DOMAIN d
    /\ \E n \in DOMAIN output.errors :
          /\ output.errors[n].ticket_id = d.ticket_id
          /\ output.errors[n].error_type = d.error_type
          /\ output.errors[n].message = d.error

\* Every input ticket has a record with a status in the output.
AllInOutput ==
    \A i \in Positions :
        \E k \in DOMAIN output.tickets :
            /\ heap[output.tickets[k]].ticket_id = ticket_ids[i]
            /\ "processing_status" \in DOMAIN heap[output.tickets[k]]

\* C22: after a full run every input ticket is in the output with a
\* status, and every ticket that failed at a stage (fetch, synthesis,
\* categorization, diagnostics analysis) carries an error-kind tag and an
\* error message, in its record and in its entry of the error list.
C22_FailuresTagged ==
    phase = "done" =>
        /\ AllInOutput
        /\ \A k \in DOMAIN output.tickets :
              FailedAtSomeStage(heap[output.tickets[k]]) => TaggedInOutput(heap[output.tickets[k]])

\* C22 for the tickets whose fetch failed.
C22_FetchFailuresTagged ==
    phase = "done" =>
        /\ AllInOutput
        /\ \A k \in DOMAIN output.tickets :
              FailedFetch(heap[output.tickets[k]]) => TaggedInOutput(heap[output.tickets[k]])

\* A finished run with a fetch failure that was not a not-found answer.
C22_FetchFailureSeen ==
    /\ phase = "done"
    /\ \E k \in DOMAIN output.tickets :
          /\ FailedFetch(heap[output.tickets[k]])
          /\ heap[output.tickets[k]].error_type = "ZendeskAPIError"

\* The record d with exactly the fields `added` set (or overwritten), every
\* other field as in d.
PlusExactly(d, added) ==
    [f \in DOMAIN d \cup DOMAIN added |-> IF f \in DOMAIN added THEN added[f] ELSE d[f]]

\* A step of a batch (its coroutines or its result loop) over the input
\* list `tickets`: it leaves every object of the list as it is, and when it
\* is the step that returns the batch, the output list holds, for every
\* task that raised, a new object that is the input record plus exactly
\* the failure fields.
BatchStep(s, op, tickets, output_list, status_field, status, error_field) ==
    (stage[s] # stage'[s] \/ task[op] # task'[op]) =>
        /\ \A j \in DOMAIN tickets : heap'[tickets[j]] = heap[tickets[j]]
        /\ (stage[s] = "running" /\ stage'[s] = "returned") =>
              \A j \in RaisedAt(tickets, op) :
                  \E k \in DOMAIN output_list :
                      /\ output_list[k] \notin DOMAIN heap
                      /\ heap'[output_list[k]] =
                            PlusExactly(heap[tickets[j]],
                                        (status_field :> status)
                                        @@ (error_field :> task[op][j].result))

\* C23: for a ticket whose synthesis or categorization task raised, the
\* record of the output list is a new object equal to the input record
\* plus exactly the stage's failure status and the stringified error; and
\* no step of synthesize_multiple or categorize_multiple, for a failed or
\* a successful ticket, modifies an input record.
C23_FailureCopies ==
    [][/\ BatchStep("synthesis", "synthesize_ticket", fetched_tickets, synthesized_tickets',
                    "processing_status", "synthesis_failed", "synthesis_error")
       /\ BatchStep("categorization", "categorize_ticket", synthesized_tickets,
                    categorized_tickets', "categorization_status", "failed",
                    "categorization_error")]_vars

\* categorize_multiple returned in analysis type "both": one task raised,
\* after analyze_multiple had written to its input record, and its failure
\* copy is in the output; another task returned.
C23_Witness ==
    /\ analysis_type = "both"
    /\ stage["categorization"] = "returned"
    /\ phase = "analysis"
    /\ \E j \in Positions :
          /\ task["categorize_ticket"][j].pc = "raised"
          /\ "diagnostics_analysis_status" \in DOMAIN heap[synthesized_tickets[j]]
          /\ \E k \in DOMAIN categorized_tickets :
                /\ categorized_tickets[k] = CopyOf("cat", synthesized_tickets[j])
                /\ heap[categorized_tickets[k]].categorization_error
                      = task["categorize_ticket"][j].result
                /\ "diagnostics_analysis_status" \in DOMAIN heap[categorized_tickets[k]]
    /\ \E j \in Positions : task["categorize_ticket"][j].pc = "returned"

\* The required fields of an analysis: the three sub-objects, every
\* enumerated sub-field in its vocabulary (letter case and outer blanks
\* aside), every reasoning field filled.
InVocabulary(x, vocabulary) == Truthy(x) /\ lower(strip(x)) \in vocabulary
RequiredFieldsValid(data) ==
    /\ {"was_diagnostics_used", "could_diagnostics_help", "metadata"} \subseteq DOMAIN data
    /\ InVocabulary(Get(data["was_diagnostics_used"], "llm_assessment", ""),
                    {"yes", "no", "unknown"})
    /\ InVocabulary(Get(data["was_diagnostics_used"], "confidence", ""),
                    {"confident", "not confident"})
    /\ InVocabulary(Get(data["could_diagnostics_help"], "triage_assessment", ""),
                    {"yes", "no", "maybe"})
    /\ InVocabulary(Get(data["could_diagnostics_help"], "fix_assessment", ""),
                    {"yes", "no", "maybe"})
    /\ InVocabulary(Get(data["could_diagnostics_help"], "confidence", ""),
                    {"confident", "not confident"})
    /\ Get(data["metadata"], "ticket_type", "")
          \in {"troubleshooting", "feature_request", "technical_request", "unclear"}
    /\ Truthy(Get(data["was_diagnostics_used"], "reasoning", ""))
    /\ Truthy(Get(data["could_diagnostics_help"], "triage_reasoning", ""))
    /\ Truthy(Get(data["could_diagnostics_help"], "fix_reasoning", ""))

\* What analyze_multiple writes on a ticket for the value analyze_ticket
\* returned.
MarkedFor(value) ==
    IF value.none THEN DiagnosticsFailed(<<>>, "Failed to parse LLM response")
    ELSE DiagnosticsSucceeded(<<>>, value.some)

\* C24: a ticket is marked diagnostics_analysis_status "success" only if
\* the analysis the LLM gave has the three required sub-objects, every
\* required enumerated sub-field in its vocabulary and every required
\* reasoning field non-empty; otherwise it is marked "failed" and no
\* diagnostics_analysis is stored.
C24_SuccessOnlyIfValid ==
    (invocation.fn = "analyze_ticket" /\ returned.done) =>
        LET text == invocation.arg.text
            valid == text.json = "object" /\ RequiredFieldsValid(text.data)
            marked == MarkedFor(returned.value)
        IN /\ marked.diagnostics_analysis_status = "success" => valid
           /\ ~valid => /\ marked.diagnostics_analysis_status = "failed"
                         /\ "diagnostics_analysis" \notin DOMAIN marked

\* analyze_ticket, with the code as it is, returned an analysis, which
\* analyze_multiple stores with status "success"; its assessment was given
\* in capitals.
C24_Witness ==
    /\ invocation.fn = "analyze_ticket"
    /\ invocation.arg.build = "source"
    /\ returned.done
    /\ MarkedFor(returned.value).diagnostics_analysis_status = "success"
    /\ invocation.arg.text.data["could_diagnostics_help"].triage_assessment = "Yes"

\* The operations that call an LLM.
LLMOps == {"synthesize_ticket", "categorize_ticket", "analyze_ticket"}

\* C25: the inter-call delay of synthesize_ticket, categorize_ticket and
\* analyze_ticket is taken inside the gate.  A coroutine whose LLM call is
\* over either starts its delay with its slot kept (the call succeeded) or
\* leaves the gate at once with no delay (the call raised); the delay ends
\* with the return and the release of the slot; and while a coroutine is
\* in its delay the gate, of limit 1, has no free slot and no other
\* coroutine of the component is in a call or in a delay.
C25_DelayInsideGate ==
    [][\A op \in LLMOps : \A j \in Positions :
          LET g == GateOf(op)
              pc == task[op][j].pc
              pc_next == task'[op][j].pc
          IN /\ (pc = "call" /\ pc_next # "call") =>
                    \/ pc_next = "sleep" /\ semaphore'[g] = semaphore[g]
                    \/ pc_next \in {"acquire", "raised"} /\ semaphore'[g] = semaphore[g] + 1
             /\ (pc # "sleep" /\ pc_next = "sleep") => pc = "call"
             /\ (pc = "sleep" /\ pc_next # "sleep") =>
                    pc_next = "returned" /\ semaphore'[g] = semaphore[g] + 1
             /\ pc = "sleep" =>
                    /\ semaphore[g] = 0
                    /\ \A k \in Positions \ {j} : task[op][k].pc \notin {"call", "sleep"}]_vars

\* A categorization in its delay while another one waits for the gate.
C25_Witness ==
    /\ \E j \in Positions : task["categorize_ticket"][j].pc = "sleep"
    /\ \E j \in Positions : task["categorize_ticket"][j].pc = "acquire"
    /\ GateLimit("categorizer") = 1

\* The status analyze_multiple computed for the ticket at position j of its
\* input list: "None" when the stage returned without a loop.
ComputedStatus(j) ==
    IF analyze_index = 0 THEN "None"
    ELSE IF task["analyze_ticket"][j].pc = "none" THEN "skipped"
    ELSE IF task["analyze_ticket"][j].pc = "returned"
            /\ task["analyze_ticket"][j].result = "analysis" THEN "success"
    ELSE "failed"

\* C26: in analysis type "both", after the merge, every output ticket has
\* the diagnostics_analysis_status that was computed for the ticket with
\* its ticket ID, and a diagnostics_analysis exactly when that analysis
\* succeeded.
C26_MergedById ==
    (phase = "done" /\ analysis_type = "both") =>
        \A k \in DOMAIN processed_tickets : \A j \in DOMAIN synthesized_tickets :
            heap[processed_tickets[k]].ticket_id = heap[synthesized_tickets[j]].ticket_id =>
                /\ Get(heap[processed_tickets[k]], "diagnostics_analysis_status", "None")
                      = ComputedStatus(j)
                /\ "diagnostics_analysis" \in DOMAIN heap[processed_tickets[k]]
                      <=> ComputedStatus(j) = "success"

\* C26 for the runs in which the two stages return the tickets in the same
\* order.
C26_MergedWhenSameOrder ==
    (phase = "done" /\ analysis_type = "both"
        /\ IdsOf(categorized_tickets) = IdsOf(diagnostics_tickets)) =>
        \A k \in DOMAIN processed_tickets : \A j \in DOMAIN synthesized_tickets :
            heap[processed_tickets[k]].ticket_id = heap[synthesized_tickets[j]].ticket_id =>
                /\ Get(heap[processed_tickets[k]], "diagnostics_analysis_status", "None")
                      = ComputedStatus(j)
                /\ "diagnostics_analysis" \in DOMAIN heap[processed_tickets[k]]
                      <=> ComputedStatus(j) = "success"

\* A merged run in which one ticket failed its fetch and the other was
\* analysed with success, the two lists in the same order.
C26_SameOrderSeen ==
    /\ phase = "done"
    /\ analysis_type = "both"
    /\ IdsOf(categorized_tickets) = IdsOf(diagnostics_tickets)
    /\ stats["fetch_failed"] = 1
    /\ stats["diagnostics_analysis_success"] = 1

\* The counts of the output's metadata add up to the number of tickets.
CountsAddUp ==
    output.metadata.successfully_processed + output.metadata.failed
        = output.metadata.total_tickets

\* C27: after a run of analysis type "pod" or "diagnostics" the metadata's
\* successfully_processed and failed add up to total_tickets: every ticket
\* is counted once, as a success or in one stage's failure count.
C27_CountsConsistent ==
    (phase = "done" /\ analysis_type \in {"pod", "diagnostics"}) => CountsAddUp

\* C27 for analysis type "pod".
C27_PodCountsConsistent ==
    (phase = "done" /\ analysis_type = "pod") =>
        /\ CountsAddUp
        /\ output.metadata.total_tickets = NumTickets

\* A finished run of type "pod" with a success and a categorization failure.
C27_PodRunSeen ==
    /\ phase = "done"
    /\ analysis_type = "pod"
    /\ output.metadata.successfully_processed = 1
    /\ output.metadata.categorization_failed = 1

\* C28: in analysis type "both" save_output writes a POD file whose
\* metadata.analysis_type is "pod" and a diagnostics file whose
\* metadata.analysis_type is "diagnostics".
C28_TwoOutputsDiffer ==
    (phase = "done" /\ analysis_type = "both") =>
        /\ DOMAIN files = {"output_pod", "output_diagnostics"}
        /\ files["output_pod"].analysis_type = "pod"
        /\ files["output_diagnostics"].analysis_type = "diagnostics"

\* C28 for the diagnostics file, and for the one file of the other types.
C28_FilesWritten ==
    phase = "done" =>
        /\ "output_diagnostics" \in DOMAIN files =>
                files["output_diagnostics"].analysis_type = "diagnostics"
        /\ analysis_type = "pod" =>
                DOMAIN files = {"output_pod"} /\ files["output_pod"].analysis_type = "pod"

\* A finished run of type "both" with its two files written.
C28_BothFilesSeen ==
    /\ phase = "done"
    /\ analysis_type = "both"
    /\ DOMAIN files = {"output_pod", "output_diagnostics"}

C30_ExactVocabulary ==
    (invocation.fn = "parse_categorization_response" /\ returned.done) =>
        /\ returned.value.confidence \in {<<c>> : c \in CONFIDENCE_LEVELS}
        /\ returned.value.primary_pod \in {<<>>} \cup {<<p>> : p \in VALID_PODS}

====
